---- MODULE Spec2Model ----
(***************************************************************************)
(* Daily results pipeline of the Wordle ranked bot: the message handler    *)
(* (events/messageCreate), the rating engine and processDailyResults       *)
(* (services/eloService), the activity refresh (services/activityService)  *)
(* and the SQLite tables they write (database).                            *)
(*                                                                         *)
(* Real-valued quantities of the rating engine are carried in fixed point: *)
(* scores and expected scores are integers in millionths (Unit).           *)
(***************************************************************************)
EXTENDS Integers, Sequences, FiniteSets, TLC

(* ---- bounds of the model ---------------------------------------------- *)
MaxUsers == 2          \* Discord users that can appear in an announcement
MaxDates == 2          \* game dates 1..MaxDates
MaxMsgs == 2           \* messages delivered to the handler
MaxRows == 2           \* player references in one announcement
MaxFaults == 1        \* store writes that throw for an outside reason
MaxSeedDays == 4        \* days of earlier runs behind a pre-populated store
MaxDaysAround == 2      \* days on either side of a calendar event (SpecDate)
MaxLines == 3           \* lines of a message text (SpecParse)
MaxPieces == 3          \* pieces of text after the colon of a row (SpecRow)
MaxMembers == 2         \* members of the guild (SpecResolve)
MaxElo == 4            \* participants of a round in the engine-only spec

(* ---- program constants ------------------------------------------------ *)
KFactor == 32
DefaultRating == 1000
InactivityThreshold == 3
FailedGuess == 7       \* guess count stored for an x/6 line
Unit == 1000000        \* fixed-point scale: 1.0 = Unit

\* parseResultRow with parseInt('x') taken as 0
parseGuessCountZero(guessStr) ==
  IF guessStr = "x" THEN 0 ELSE CHOOSE d \in 1..6 : ToString(d) = guessStr

\* parseResultRow: guessStr === 'x' ? 7 : parseInt(guessStr, 10)
parseGuessCount(guessStr) ==
  IF guessStr = "x" THEN FailedGuess ELSE CHOOSE d \in 1..6 : ToString(d) = guessStr

Users == 1..MaxUsers
\* member.user.username of the guild member with id discordId
Username(discordId) == "user" \o ToString(discordId)
Dates == 1..MaxDates
\* the game dates of the runs made before the first state (SpecSeeded)
SeedDates == (0 - MaxSeedDays)..(0 - 1)
\* a username the member has had before being renamed
OldUsername(discordId) == "old" \o ToString(discordId)
GuessCounts == {3, FailedGuess}
Authors == {"wordle", "self", "other"}

(* ---- rating engine (services/eloService) ------------------------------ *)

\* 1 / (1 + 10^(-d/400)) in millionths, for d = ratingA - ratingB in 0..400
ExpectedTable ==
  <<
     500000, 501439, 502878, 504317, 505756, 507195, 508634, 510072, 511511, 512949,
     514387, 515825, 517263, 518700, 520137, 521573, 523010, 524445, 525881, 527316,
     528751, 530185, 531618, 533051, 534484, 535916, 537347, 538778, 540208, 541638,
     543066, 544495, 545922, 547349, 548774, 550199, 551624, 553047, 554469, 555891,
     557312, 558731, 560150, 561568, 562985, 564400, 565815, 567229, 568641, 570053,
     571463, 572872, 574280, 575687, 577092, 578497, 579900, 581301, 582702, 584101,
     585499, 586895, 588290, 589684, 591076, 592466, 593855, 595243, 596629, 598014,
     599397, 600778, 602158, 603536, 604913, 606288, 607661, 609033, 610402, 611771,
     613137, 614501, 615864, 617225, 618584, 619941, 621297, 622650, 624002, 625351,
     626699, 628045, 629389, 630730, 632070, 633408, 634743, 636077, 637408, 638738,
     640065, 641390, 642713, 644034, 645352, 646669, 647983, 649295, 650605, 651912,
     653217, 654520, 655821, 657119, 658415, 659708, 660999, 662288, 663574, 664858,
     666139, 667418, 668695, 669969, 671241, 672510, 673776, 675040, 676302, 677561,
     678817, 680071, 681322, 682570, 683816, 685060, 686300, 687538, 688774, 690006,
     691236, 692463, 693688, 694910, 696129, 697345, 698559, 699769, 700977, 702183,
     703385, 704585, 705781, 706975, 708166, 709355, 710540, 711723, 712902, 714079,
     715253, 716424, 717592, 718757, 719919, 721078, 722235, 723388, 724538, 725686,
     726830, 727972, 729110, 730245, 731378, 732507, 733634, 734757, 735877, 736995,
     738109, 739220, 740328, 741434, 742536, 743635, 744730, 745823, 746913, 748000,
     749083, 750163, 751241, 752315, 753386, 754454, 755519, 756581, 757639, 758695,
     759747, 760796, 761842, 762885, 763925, 764961, 765995, 767025, 768052, 769076,
     770097, 771114, 772129, 773140, 774148, 775153, 776155, 777153, 778148, 779141,
     780130, 781115, 782098, 783077, 784054, 785027, 785997, 786963, 787927, 788887,
     789844, 790798, 791749, 792696, 793641, 794582, 795520, 796455, 797386, 798315,
     799240, 800162, 801081, 801997, 802909, 803819, 804725, 805628, 806528, 807424,
     808318, 809208, 810095, 810979, 811860, 812738, 813612, 814484, 815352, 816217,
     817079, 817938, 818793, 819646, 820495, 821341, 822185, 823025, 823862, 824695,
     825526, 826354, 827178, 827999, 828818, 829633, 830445, 831254, 832060, 832863,
     833662, 834459, 835253, 836043, 836831, 837615, 838397, 839175, 839951, 840723,
     841492, 842259, 843022, 843782, 844540, 845294, 846045, 846793, 847539, 848281,
     849020, 849757, 850490, 851221, 851948, 852673, 853395, 854113, 854829, 855542,
     856252, 856959, 857663, 858365, 859063, 859759, 860451, 861141, 861828, 862512,
     863193, 863871, 864547, 865220, 865890, 866557, 867221, 867882, 868541, 869197,
     869850, 870500, 871148, 871793, 872435, 873074, 873710, 874344, 874975, 875604,
     876229, 876852, 877473, 878090, 878705, 879317, 879927, 880534, 881138, 881739,
     882338, 882935, 883528, 884119, 884708, 885294, 885877, 886458, 887036, 887611,
     888184, 888755, 889323, 889888, 890451, 891011, 891569, 892124, 892677, 893227,
     893775, 894320, 894863, 895403, 895941, 896477, 897010, 897540, 898068, 898594,
     899117, 899638, 900157, 900673, 901187, 901698, 902207, 902714, 903218, 903720,
     904220, 904718, 905213, 905705, 906196, 906684, 907170, 907654, 908135, 908614,
     909091
  >>

\* calculateExpectedScore(ratingA, ratingB); rating gaps beyond the table
\* are outside the model (the lookup fails rather than guessing a value)
calculateExpectedScore(ratingA, ratingB) ==
  IF ratingA >= ratingB
    THEN ExpectedTable[(ratingA - ratingB) + 1]
    ELSE Unit - ExpectedTable[(ratingB - ratingA) + 1]

\* determineMatchResult comparing with <= : a tie goes to the first player
determineMatchResultNoTie(guessCount1, guessCount2) ==
  IF guessCount1 <= guessCount2 THEN [score1 |-> Unit, score2 |-> 0]
  ELSE [score1 |-> 0, score2 |-> Unit]

\* determineMatchResult(guessCount1, guessCount2), scores in millionths
determineMatchResult(guessCount1, guessCount2) ==
  IF guessCount1 < guessCount2 THEN [score1 |-> Unit, score2 |-> 0]
  ELSE IF guessCount1 > guessCount2 THEN [score1 |-> 0, score2 |-> Unit]
  ELSE [score1 |-> Unit \div 2, score2 |-> Unit \div 2]

\* Math.round(num / den) for den > 0: halves go towards +infinity
MathRound(num, den) == (2 * num + den) \div (2 * den)

RECURSIVE SumOver(_, _)
SumOver(f, S) ==
  IF S = {} THEN 0
  ELSE LET x == CHOOSE y \in S : TRUE IN f[x] + SumOver(f, S \ {x})

\* the matchup with the first side's expected score taken for both sides
MatchupChangeSameExpected(participants, i, j, id) ==
  LET player1 == participants[i]
      player2 == participants[j]
      res == determineMatchResult(player1.guessCount, player2.guessCount)
      expected1 == calculateExpectedScore(player1.currentElo, player2.currentElo)
  IN  (IF player1.playerId = id THEN res.score1 - expected1 ELSE 0)
    + (IF player2.playerId = id THEN res.score2 - expected1 ELSE 0)

\* what the matchup (i, j), i < j, adds to eloChanges[id], before the
\* scaling by kFactor / (n - 1): score - expected of each side, credited
\* to the side's playerId
MatchupChange(participants, i, j, id) ==
  LET player1 == participants[i]
      player2 == participants[j]
      res == determineMatchResult(player1.guessCount, player2.guessCount)
      expected1 == calculateExpectedScore(player1.currentElo, player2.currentElo)
      expected2 == calculateExpectedScore(player2.currentElo, player1.currentElo)
  IN  (IF player1.playerId = id THEN res.score1 - expected1 ELSE 0)
    + (IF player2.playerId = id THEN res.score2 - expected2 ELSE 0)

\* calculatePairwiseElo with the full kFactor on every matchup
calculatePairwiseEloUnscaled(participants, kFactor) ==
  LET n == Len(participants)
      ids == {participants[i].playerId : i \in 1..n}
      pairs == {p \in (1..n) \X (1..n) : p[1] < p[2]}
      acc(id) == SumOver([p \in pairs |-> MatchupChange(participants, p[1], p[2], id)], pairs)
  IN  IF n < 2 THEN [id \in ids |-> 0]
      ELSE [id \in ids |-> MathRound(kFactor * acc(id), Unit)]

\* calculatePairwiseElo returning an empty map when there is nobody to compare
calculatePairwiseEloNoInit(participants, kFactor) ==
  LET n == Len(participants)
      ids == {participants[i].playerId : i \in 1..n}
      pairs == {p \in (1..n) \X (1..n) : p[1] < p[2]}
      acc(id) == SumOver([p \in pairs |-> MatchupChange(participants, p[1], p[2], id)], pairs)
  IN  IF n < 2 THEN <<>>
      ELSE [id \in ids |-> MathRound(kFactor * acc(id), (n - 1) * Unit)]

\* calculatePairwiseElo rounding every matchup's change before adding it
calculatePairwiseEloRoundedPerPair(participants, kFactor) ==
  LET n == Len(participants)
      ids == {participants[i].playerId : i \in 1..n}
      pairs == {p \in (1..n) \X (1..n) : p[1] < p[2]}
      acc(id) == SumOver([p \in pairs |->
                            MathRound(kFactor * MatchupChange(participants, p[1], p[2], id),
                                      (n - 1) * Unit)], pairs)
  IN  IF n < 2 THEN [id \in ids |-> 0]
      ELSE [id \in ids |-> acc(id)]

\* calculatePairwiseElo(participants, config): the map playerId -> change
calculatePairwiseElo(participants, kFactor) ==
  LET n == Len(participants)
      ids == {participants[i].playerId : i \in 1..n}
      pairs == {p \in (1..n) \X (1..n) : p[1] < p[2]}
      acc(id) == SumOver([p \in pairs |-> MatchupChange(participants, p[1], p[2], id)], pairs)
  IN  IF n < 2 THEN [id \in ids |-> 0]
      ELSE [id \in ids |-> MathRound(kFactor * acc(id), (n - 1) * Unit)]


(* ---- the store (database/connection: createTables) -------------------- *)

VARIABLES
  players,          \* table players, in rowid order: players[id] is row id
  games,            \* table games, in rowid order
  eloHistory,       \* table elo_history, in rowid order
  dailySummaries,   \* table daily_summaries: a set of rows, game_date unique
  handlers,         \* the messageCreate handler invocations, in delivery order
  faults,           \* store writes that have thrown for an outside reason
  sent,             \* the announcement that is delivered again and again
                    \* (specification SpecTwice; NoMsg otherwise)
  engineInput,      \* specification SpecElo: the participants handed to
  engineOutput,     \* calculatePairwiseElo, the map it returned,
  engineDone,       \* and whether it has returned
  summaryRun,       \* history: game date -> the players counted by the run
                    \* that wrote the date's daily_summaries row
  incremented,      \* history: game date -> player id -> the number of
                    \* incrementInactiveDays calls made for the player by
                    \* the runs for the date
  hostZone,         \* the time zone of the process (TZ), which Date works in
  message,          \* specifications SpecDate, SpecRow, SpecParse: the
  parsed,           \* message handed to parseWordleMessage and what it
                    \* returned
  guild,            \* specification SpecResolve: message.guild,
  resolvedResults,  \* and what resolveUsernames returned for parsed.results
  parserPc,         \* "idle", "parsed", "resolved"
  env,              \* specification SpecConfig: process.env,
  configInstance,   \* the module's configInstance,
  configReturn,     \* what the last call of getConfig returned or threw,
  configCalls       \* and the number of calls made

vars == <<players, games, eloHistory, dailySummaries, handlers, faults, summaryRun,
          incremented,
          sent, engineInput, engineOutput, engineDone,
          hostZone, message, parsed, guild, resolvedResults, parserPc,
          env, configInstance, configReturn, configCalls>>
parser == <<message, parsed, guild, resolvedResults, parserPc>>
settings == <<env, configInstance, configReturn, configCalls>>
engine == <<engineInput, engineOutput, engineDone>>
store == <<players, games, eloHistory, dailySummaries>>

\* the players row written by createPlayer, with the column defaults
\* (data: CreatePlayerData, its discordId and username)
NewPlayerRow(data, defaultElo) ==
  [discordId |-> data.discordId, username |-> data.username,
   elo |-> defaultElo, totalGames |-> 0,
   totalWins |-> 0, totalCrowns |-> 0, totalGuesses |-> 0, lastPlayed |-> 0,
   consecutiveInactiveDays |-> 0, isActive |-> TRUE]

\* getPlayerByDiscordId: the row id, 0 when there is none
getPlayerByDiscordId(pl, discordId) ==
  IF \E id \in 1..Len(pl) : pl[id].discordId = discordId
    THEN CHOOSE id \in 1..Len(pl) : pl[id].discordId = discordId
    ELSE 0

\* createPlayer: INSERT INTO players
createPlayer(pl, data, defaultElo) ==
  Append(pl, NewPlayerRow(data, defaultElo))

\* updatePlayerUsername with an UPDATE that has lost its WHERE id = ?
updatePlayerUsernameEveryRow(pl, playerId, username) ==
  [id \in 1..Len(pl) |-> [pl[id] EXCEPT !.username = username]]

\* updatePlayerUsername: the UPDATE of one players row
updatePlayerUsername(pl, playerId, username) ==
  [pl EXCEPT ![playerId].username = username]

\* getOrCreatePlayer without the lookup: every sighting inserts a row
getOrCreatePlayerAlwaysCreate(pl, data, defaultElo) ==
  [players |-> createPlayer(pl, data, defaultElo), id |-> Len(pl) + 1]

\* getOrCreatePlayer: the table afterwards and the player's row id; the
\* row of a known player gets the username of data when it differs
getOrCreatePlayer(pl, data, defaultElo) ==
  LET existing == getPlayerByDiscordId(pl, data.discordId)
  IN  IF existing # 0
        THEN [players |-> IF pl[existing].username # data.username
                            THEN updatePlayerUsername(pl, existing, data.username)
                            ELSE pl,
              id |-> existing]
      ELSE [players |-> createPlayer(pl, data, defaultElo),
            id |-> Len(pl) + 1]

\* hasGameRecord(playerId, gameDate)
hasGameRecord(gm, playerId, gameDate) ==
  \E k \in 1..Len(gm) : gm[k].playerId = playerId /\ gm[k].gameDate = gameDate

\* updatePlayerAfterGame counting every game as solved
updatePlayerAfterGameAlwaysWin(pl, playerId, guessCount, newElo, gameDate, hasCrown) ==
  LET row == pl[playerId]
  IN  [pl EXCEPT ![playerId] =
        [row EXCEPT !.elo = newElo,
                    !.totalGames = row.totalGames + 1,
                    !.totalWins = row.totalWins + 1,
                    !.totalCrowns = row.totalCrowns + (IF hasCrown THEN 1 ELSE 0),
                    !.totalGuesses = row.totalGuesses + guessCount,
                    !.lastPlayed = gameDate,
                    !.consecutiveInactiveDays = 0,
                    !.isActive = TRUE]]

\* updatePlayerAfterGame without the reset of the activity columns
updatePlayerAfterGameNoReset(pl, playerId, guessCount, newElo, gameDate, hasCrown) ==
  LET isWin == guessCount <= 6
      row == pl[playerId]
  IN  [pl EXCEPT ![playerId] =
        [row EXCEPT !.elo = newElo,
                    !.totalGames = row.totalGames + 1,
                    !.totalWins = row.totalWins + (IF isWin THEN 1 ELSE 0),
                    !.totalCrowns = row.totalCrowns + (IF hasCrown THEN 1 ELSE 0),
                    !.totalGuesses = row.totalGuesses + guessCount,
                    !.lastPlayed = gameDate]]

\* updatePlayerAfterGame resetting the counter and leaving is_active alone
updatePlayerAfterGameStaysInactive(pl, playerId, guessCount, newElo, gameDate, hasCrown) ==
  LET isWin == guessCount <= 6
      row == pl[playerId]
  IN  [pl EXCEPT ![playerId] =
        [row EXCEPT !.elo = newElo,
                    !.totalGames = row.totalGames + 1,
                    !.totalWins = row.totalWins + (IF isWin THEN 1 ELSE 0),
                    !.totalCrowns = row.totalCrowns + (IF hasCrown THEN 1 ELSE 0),
                    !.totalGuesses = row.totalGuesses + guessCount,
                    !.lastPlayed = gameDate,
                    !.consecutiveInactiveDays = 0]]

\* updatePlayerAfterGame: the UPDATE of one players row
updatePlayerAfterGame(pl, playerId, guessCount, newElo, gameDate, hasCrown) ==
  LET isWin == guessCount <= 6
      row == pl[playerId]
  IN  [pl EXCEPT ![playerId] =
        [row EXCEPT !.elo = newElo,
                    !.totalGames = row.totalGames + 1,
                    !.totalWins = row.totalWins + (IF isWin THEN 1 ELSE 0),
                    !.totalCrowns = row.totalCrowns + (IF hasCrown THEN 1 ELSE 0),
                    !.totalGuesses = row.totalGuesses + guessCount,
                    !.lastPlayed = gameDate,
                    !.consecutiveInactiveDays = 0,
                    !.isActive = TRUE]]

\* games created without its UNIQUE(player_id, game_date)
GamesNotUnique(gm, playerId, gameDate) == FALSE

\* UNIQUE(player_id, game_date) of table games: would the INSERT be refused
GamesUniqueViolated(gm, playerId, gameDate) == hasGameRecord(gm, playerId, gameDate)

\* recordGame keyed by the day the message was posted, not the game date
recordGameMessageDate(gm, playerId, guessCount, gameDate, eloBefore, eloAfter) ==
  Append(gm, [playerId |-> playerId, guessCount |-> guessCount,
              gameDate |-> gameDate + 1, eloChange |-> eloAfter - eloBefore,
              eloBefore |-> eloBefore, eloAfter |-> eloAfter])

\* recordGame: the row inserted into games
recordGame(gm, playerId, guessCount, gameDate, eloBefore, eloAfter) ==
  Append(gm, [playerId |-> playerId, guessCount |-> guessCount,
              gameDate |-> gameDate, eloChange |-> eloAfter - eloBefore,
              eloBefore |-> eloBefore, eloAfter |-> eloAfter])

\* recordEloHistory
recordEloHistory(hist, playerId, elo, gameDate) ==
  Append(hist, [playerId |-> playerId, elo |-> elo, gameDate |-> gameDate])

\* isDailyResultsProcessed with count > 1 for count > 0
isDailyResultsProcessedTwice(ds, gameDate) ==
  Cardinality({s \in ds : s.gameDate = gameDate}) > 1

\* isDailyResultsProcessed(gameDate)
isDailyResultsProcessed(ds, gameDate) == \E s \in ds : s.gameDate = gameDate

\* saveDailySummary keyed by the day the message was posted
saveDailySummaryMessageDate(ds, gameDate, participantsCount, highestEloPlayerId, lowestEloPlayerId) ==
  {s \in ds : s.gameDate # gameDate + 1}
    \cup {[gameDate |-> gameDate + 1, participantsCount |-> participantsCount,
           highestEloPlayerId |-> highestEloPlayerId,
           lowestEloPlayerId |-> lowestEloPlayerId]}

\* saveDailySummary: INSERT OR REPLACE on the unique game_date
saveDailySummary(ds, gameDate, participantsCount, highestEloPlayerId, lowestEloPlayerId) ==
  {s \in ds : s.gameDate # gameDate}
    \cup {[gameDate |-> gameDate, participantsCount |-> participantsCount,
           highestEloPlayerId |-> highestEloPlayerId,
           lowestEloPlayerId |-> lowestEloPlayerId]}

Max(S) == CHOOSE x \in S : \A y \in S : y <= x
Min(S) == CHOOSE x \in S : \A y \in S : x <= y

\* getHighestEloPlayers: the ids of the rows selected
getHighestEloPlayers(pl) ==
  LET active == {id \in 1..Len(pl) : pl[id].isActive}
  IN  IF active = {} THEN {}
      ELSE {id \in active : pl[id].elo = Max({pl[a].elo : a \in active})}

\* getLowestEloPlayers: the ids of the rows selected
getLowestEloPlayers(pl) ==
  LET cand == {id \in 1..Len(pl) : pl[id].isActive /\ pl[id].totalGames > 0}
  IN  IF cand = {} THEN {}
      ELSE {id \in cand : pl[id].elo = Min({pl[a].elo : a \in cand})}

\* getPlayersWhoDidntPlay(gameDate): the ids of the rows selected
getPlayersWhoDidntPlay(pl, gm, gameDate) ==
  {id \in 1..Len(pl) : ~hasGameRecord(gm, id, gameDate)}

(* ---- activity refresh (services/activityService) ---------------------- *)

\* updatePlayerActivity marking inactive only past the threshold
updatePlayerActivityPastThreshold(pl, gm, gameDate, inactivityThreshold) ==
  [id \in 1..Len(pl) |->
     IF hasGameRecord(gm, id, gameDate) THEN pl[id]
     ELSE [pl[id] EXCEPT
             !.consecutiveInactiveDays = @ + 1,
             !.isActive = IF pl[id].consecutiveInactiveDays + 1 > inactivityThreshold
                            THEN FALSE ELSE @]]

\* updatePlayerActivity(gameDate, inactivityThreshold): incrementInactiveDays
\* on every row selected, markPlayerInactive when the threshold is reached
updatePlayerActivity(pl, gm, gameDate, inactivityThreshold) ==
  LET didnt == getPlayersWhoDidntPlay(pl, gm, gameDate)
  IN  [id \in 1..Len(pl) |->
        IF id \notin didnt THEN pl[id]
        ELSE LET newInactiveDays == pl[id].consecutiveInactiveDays + 1
             IN  [pl[id] EXCEPT
                    !.consecutiveInactiveDays = newInactiveDays,
                    !.isActive = IF newInactiveDays >= inactivityThreshold /\ pl[id].isActive
                                   THEN FALSE ELSE pl[id].isActive]]


(* ---- processDailyResults (services/eloService) ------------------------ *)

\* result.hasCrown as processDailyResults reads it: ParsedPlayerResult has
\* no such field (resolveUsernames builds discordId, username, guessCount),
\* so the value read is undefined, which the UPDATE counts as 0
ResultHasCrown(result) == FALSE

\* the first loop without its hasGameRecord check
RECURSIVE CollectParticipantsUnchecked(_, _, _, _, _)
CollectParticipantsUnchecked(results, gm, gameDate, i, st) ==
  IF i > Len(results) THEN st
  ELSE
    LET result == results[i]
        got == getOrCreatePlayer(st.players,
                 [discordId |-> result.discordId, username |-> result.username],
                 DefaultRating)
        player == got.players[got.id]
    IN  CollectParticipantsUnchecked(results, gm, gameDate, i + 1,
          [players |-> got.players,
           participants |-> Append(st.participants,
              [playerId |-> got.id, currentElo |-> player.elo,
               guessCount |-> result.guessCount]),
           playerMap |-> (got.id :> [discordId |-> result.discordId,
                                     guessCount |-> result.guessCount,
                                     previousElo |-> player.elo,
                                     hasCrown |-> ResultHasCrown(result)])
                          @@ st.playerMap])

\* the first loop: getOrCreatePlayer, the hasGameRecord check, then the
\* pushes onto participants and playerMap (a later entry of one player
\* replaces the earlier one in playerMap)
RECURSIVE CollectParticipants(_, _, _, _, _)
CollectParticipants(results, gm, gameDate, i, st) ==
  IF i > Len(results) THEN st
  ELSE
    LET result == results[i]
        got == getOrCreatePlayer(st.players,
                 [discordId |-> result.discordId, username |-> result.username],
                 DefaultRating)
        player == got.players[got.id]
    IN  IF hasGameRecord(gm, got.id, gameDate)
          THEN CollectParticipants(results, gm, gameDate, i + 1,
                 [st EXCEPT !.players = got.players])
          ELSE CollectParticipants(results, gm, gameDate, i + 1,
                 [players |-> got.players,
                  participants |-> Append(st.participants,
                     [playerId |-> got.id, currentElo |-> player.elo,
                      guessCount |-> result.guessCount]),
                  playerMap |-> (got.id :> [discordId |-> result.discordId,
                                            guessCount |-> result.guessCount,
                                            previousElo |-> player.elo,
                                            hasCrown |-> ResultHasCrown(result)])
                                 @@ st.playerMap])

\* the second loop with the throw of a write caught inside the loop body
\* and thrown again after the last participant
RECURSIVE ApplyChangesContinue(_, _, _, _, _, _, _)
ApplyChangesContinue(participants, playerMap, eloChanges, gameDate, k, st, fault) ==
  IF k > Len(participants) THEN st
  ELSE
    LET participant == participants[k]
        playerData == playerMap[participant.playerId]
        eloChange == eloChanges[participant.playerId]
        newElo == participant.currentElo + eloChange
        w == 3 * (k - 1)
        pl1 == updatePlayerAfterGame(st.players, participant.playerId,
                 playerData.guessCount, newElo, gameDate, playerData.hasCrown)
        refused == hasGameRecord(st.games, participant.playerId, gameDate)
        gm1 == recordGame(st.games, participant.playerId, playerData.guessCount,
                 gameDate, participant.currentElo, newElo)
        hist1 == recordEloHistory(st.eloHistory, participant.playerId, newElo, gameDate)
        first == st.threw = "none"
        caught(after, what, done) ==
          [after EXCEPT !.threw = IF first THEN what ELSE @,
                        !.writes = IF first THEN done ELSE @]
    IN  ApplyChangesContinue(participants, playerMap, eloChanges, gameDate, k + 1,
          IF fault = w + 1 THEN caught(st, "fault", w)
          ELSE IF refused THEN caught([st EXCEPT !.players = pl1], "unique", w + 1)
          ELSE IF fault = w + 2 THEN caught([st EXCEPT !.players = pl1], "fault", w + 1)
          ELSE IF fault = w + 3
            THEN caught([st EXCEPT !.players = pl1, !.games = gm1], "fault", w + 2)
          ELSE [st EXCEPT !.players = pl1, !.games = gm1, !.eloHistory = hist1,
                          !.calculationResults = Append(@,
                             [playerId |-> participant.playerId,
                              previousElo |-> participant.currentElo,
                              newElo |-> newElo, eloChange |-> eloChange,
                              guessCount |-> playerData.guessCount]),
                          !.writes = IF first THEN w + 3 ELSE @],
          fault)

\* the second loop from participant k on. fault is the number of the store
\* write of this loop that throws (0: none does); a recordGame refused by
\* UNIQUE(player_id, game_date) throws as well. threw says how the loop
\* ended: "none", "fault" or "unique"; writes counts the writes it completed
RECURSIVE ApplyChanges(_, _, _, _, _, _, _)
ApplyChanges(participants, playerMap, eloChanges, gameDate, k, st, fault) ==
  IF k > Len(participants) THEN st
  ELSE
    LET participant == participants[k]
        playerData == playerMap[participant.playerId]
        eloChange == eloChanges[participant.playerId]
        newElo == participant.currentElo + eloChange
        w == 3 * (k - 1)
        pl1 == updatePlayerAfterGame(st.players, participant.playerId,
                 playerData.guessCount, newElo, gameDate, playerData.hasCrown)
        refused == GamesUniqueViolated(st.games, participant.playerId, gameDate)
        gm1 == recordGame(st.games, participant.playerId, playerData.guessCount,
                 gameDate, participant.currentElo, newElo)
        hist1 == recordEloHistory(st.eloHistory, participant.playerId, newElo, gameDate)
    IN  IF fault = w + 1 THEN [st EXCEPT !.threw = "fault"]
        ELSE IF refused
          THEN [st EXCEPT !.players = pl1, !.threw = "unique", !.writes = w + 1]
        ELSE IF fault = w + 2
          THEN [st EXCEPT !.players = pl1, !.threw = "fault", !.writes = w + 1]
        ELSE IF fault = w + 3
          THEN [st EXCEPT !.players = pl1, !.games = gm1, !.threw = "fault",
                          !.writes = w + 2]
        ELSE ApplyChanges(participants, playerMap, eloChanges, gameDate, k + 1,
               [players |-> pl1, games |-> gm1, eloHistory |-> hist1,
                calculationResults |-> Append(st.calculationResults,
                   [playerId |-> participant.playerId,
                    previousElo |-> participant.currentElo,
                    newElo |-> newElo, eloChange |-> eloChange,
                    guessCount |-> playerData.guessCount]),
                threw |-> "none", writes |-> w + 3], fault)

\* processDailyResults(results, gameDate, config): the tables afterwards,
\* the returned calculationResults and whether it threw
processDailyResults(pl, gm, hist, results, gameDate, fault) ==
  LET c == CollectParticipants(results, gm, gameDate, 1,
             [players |-> pl, participants |-> <<>>, playerMap |-> <<>>])
      st0 == [players |-> c.players, games |-> gm, eloHistory |-> hist,
              calculationResults |-> <<>>, threw |-> "none", writes |-> 0]
  IN  IF c.participants = <<>> THEN st0
      ELSE ApplyChanges(c.participants, c.playerMap,
             calculatePairwiseElo(c.participants, KFactor), gameDate, 1, st0, fault)

(* ---- the message handler (events/messageCreate) ----------------------- *)

Rows == UNION {[1..n -> [discordId : Users, guessCount : GuessCounts]] : n \in 0..MaxRows}

(* ---- Date (ECMAScript time values, counted here in hours and days) ---- *)

\* time value 0 is 00:00 UTC on 1 January of EpochYear
EpochYear == 2024
HoursPerDay == 24
Years == (EpochYear - 1)..(EpochYear + 1)
Months == 1..12

DaysInYear(y) ==
  IF y % 4 = 0 /\ (y % 100 # 0 \/ y % 400 = 0) THEN 366 ELSE 365

DaysInMonth(y, m) ==
  IF m = 2 THEN DaysInYear(y) - 337
  ELSE IF m \in {4, 6, 9, 11} THEN 30 ELSE 31

\* the day number of 1 January of year y
RECURSIVE DayFromYear(_)
DayFromYear(y) ==
  IF y = EpochYear THEN 0
  ELSE IF y > EpochYear THEN DayFromYear(y - 1) + DaysInYear(y - 1)
  ELSE DayFromYear(y + 1) - DaysInYear(y)

\* the days of year y before its month m
RECURSIVE DaysBeforeMonth(_, _)
DaysBeforeMonth(y, m) ==
  IF m = 1 THEN 0 ELSE DaysBeforeMonth(y, m - 1) + DaysInMonth(y, m - 1)

\* MakeDay(year, month, date) for a month of the year; date may be 0
MakeDay(year, month, date) ==
  DayFromYear(year) + DaysBeforeMonth(year, month) + date - 1

YearFromTime(day) ==
  CHOOSE y \in Years : DayFromYear(y) <= day /\ day < DayFromYear(y + 1)

MonthFromTime(day) ==
  LET y == YearFromTime(day)
  IN  CHOOSE m \in Months :
        /\ MakeDay(y, m, 1) <= day
        /\ day < MakeDay(y, m, 1) + DaysInMonth(y, m)

DateFromTime(day) ==
  day - MakeDay(YearFromTime(day), MonthFromTime(day), 1) + 1

\* the time value of hour h UTC on a calendar day
UTCHour(year, month, date, h) == HoursPerDay * MakeDay(year, month, date) + h

\* a time zone: offsets[k] (hours east of UTC) is in force from
\* changes[k - 1] up to changes[k]
FixedZone(name, offset) == [name |-> name, offsets |-> <<offset>>, changes |-> <<>>]

UTCZone == FixedZone("UTC", 0)

\* the rules of the tz database for EpochYear
Zones ==
  {UTCZone,
   FixedZone("Pacific/Kiritimati", 14),
   FixedZone("Pacific/Pago_Pago", 0 - 11),
   [name |-> "Europe/Berlin", offsets |-> <<1, 2, 1>>,
    changes |-> <<UTCHour(EpochYear, 3, 31, 1), UTCHour(EpochYear, 10, 27, 1)>>],
   [name |-> "America/New_York", offsets |-> <<0 - 5, 0 - 4, 0 - 5>>,
    changes |-> <<UTCHour(EpochYear, 3, 10, 7), UTCHour(EpochYear, 11, 3, 6)>>]}

\* offset k of the zone is in force at the UTC time value u
InForce(zone, k, u) ==
  /\ k = 1 \/ zone.changes[k - 1] <= u
  /\ k = Len(zone.offsets) \/ u < zone.changes[k]

\* LocalTZA(t, isUTC): the offset at the UTC time t, or the offset by which
\* the local time t is read; a local time that comes twice or not at all
\* is read with the offset before the transition
LocalTZA(zone, t, isUTC) ==
  LET ks == 1..Len(zone.offsets)
      fits == {k \in ks : InForce(zone, k, t - zone.offsets[k])}
      begun == {k \in ks : k = 1 \/ zone.changes[k - 1] <= t - zone.offsets[k]}
  IN  IF isUTC THEN zone.offsets[CHOOSE k \in ks : InForce(zone, k, t)]
      ELSE IF fits # {} THEN zone.offsets[Min(fits)]
      ELSE zone.offsets[Max(begun)]

LocalTime(zone, t) == t + LocalTZA(zone, t, TRUE)
UTC(zone, t) == t - LocalTZA(zone, t, FALSE)

\* toISOString().split('T')[0]: year, month and day of the UTC day
toISODate(day) == <<YearFromTime(day), MonthFromTime(day), DateFromTime(day)>>

\* parseWordleMessage: messageDate.setDate(messageDate.getDate() - 1) on
\* the local fields, then the UTC day that toISOString prints (game dates
\* are kept as day numbers, toISODate gives the text)
NoDate == 0
ParseGameDate(createdAt, zone) ==
  LET t == LocalTime(zone, createdAt)
      day == t \div HoursPerDay
      dt == DateFromTime(day) - 1
      newDate == HoursPerDay * MakeDay(YearFromTime(day), MonthFromTime(day), dt)
                   + (t % HoursPerDay)
  IN  UTC(zone, newDate) \div HoursPerDay

\* message.createdAt of an announcement posted at noon UTC of a day
Noon(day) == HoursPerDay * day + 12

(* ---- parseWordleMessage (services/statsService) ------------------------ *)

\* A text is a sequence of characters, message.content the sequence of its
\* lines (content.split). Two pieces of text are kept whole: the crown
\* glyph, and a text that PATTERNS.streakLine matches
Crown == "crown"
StreakText == "**Your group is on a 5 day streak!**"

DigitChars == {"0", "1", "2", "3", "4", "5", "6", "7", "8", "9"}
LowerCase == <<"a", "b", "c", "d", "e", "f", "g", "h", "i", "j", "k", "l", "m",
               "n", "o", "p", "q", "r", "s", "t", "u", "v", "w", "x", "y", "z">>
UpperCase == <<"A", "B", "C", "D", "E", "F", "G", "H", "I", "J", "K", "L", "M",
               "N", "O", "P", "Q", "R", "S", "T", "U", "V", "W", "X", "Y", "Z">>
\* the class \w
WordChars ==
  DigitChars \cup {"_"} \cup {LowerCase[i] : i \in 1..Len(LowerCase)}
             \cup {UpperCase[i] : i \in 1..Len(UpperCase)}
\* the class [1-6x] under the flag i
GuessChars == {"1", "2", "3", "4", "5", "6", "x", "X"}

\* toLowerCase of a character, and of a text
LowerChar(c) ==
  IF \E i \in 1..Len(UpperCase) : UpperCase[i] = c
    THEN LowerCase[CHOOSE i \in 1..Len(UpperCase) : UpperCase[i] = c]
    ELSE c
toLowerCase(text) == [i \in 1..Len(text) |-> LowerChar(text[i])]

\* the first position from i on whose character is not in class
RECURSIVE SkipWhile(_, _, _)
SkipWhile(text, i, class) ==
  IF i <= Len(text) /\ text[i] \in class THEN SkipWhile(text, i + 1, class) ELSE i

\* the last position down from i whose character is not in class
RECURSIVE SkipBack(_, _, _)
SkipBack(text, i, class) ==
  IF i >= 1 /\ text[i] \in class THEN SkipBack(text, i - 1, class) ELSE i

\* String.prototype.trim
Trim(text) == SubSeq(text, SkipWhile(text, 1, {" "}), SkipBack(text, Len(text), {" "}))

\* PATTERNS.streakLine.test(text)
streakLineTest(text) == \E i \in 1..Len(text) : text[i] = StreakText

\* /[1-6x]\/6:/i.test(text)
resultShapeTest(text) ==
  \E i \in 1..(Len(text) - 3) :
    text[i] \in GuessChars /\ text[i + 1] = "/" /\ text[i + 2] = "6" /\ text[i + 3] = ":"

\* containsWordleResults(content): both tests on the whole content; neither
\* pattern matches across a line break
containsWordleResults(content) ==
  /\ \E l \in 1..Len(content) : streakLineTest(content[l])
  /\ \E l \in 1..Len(content) : resultShapeTest(content[l])

\* row.match(/^(?:crown\s*)?([1-6x])\/6:\s*(.+)$/i): whether it matches, the
\* first group in lower case and the second group. \s* takes every space,
\* and gives the last one back when nothing else is left for (.+)
rowMatch(row) ==
  LET g == IF Len(row) >= 1 /\ row[1] = Crown THEN SkipWhile(row, 2, {" "}) ELSE 1
      head == /\ g + 3 <= Len(row)
              /\ row[g] \in GuessChars
              /\ row[g + 1] = "/" /\ row[g + 2] = "6" /\ row[g + 3] = ":"
      rest == SubSeq(row, g + 4, Len(row))
      k == SkipWhile(rest, 1, {" "})
  IN  IF head /\ rest # <<>>
        THEN [matched |-> TRUE, guessStr |-> LowerChar(row[g]),
              playersSection |-> IF k <= Len(rest) THEN SubSeq(rest, k, Len(rest))
                                 ELSE SubSeq(rest, Len(rest), Len(rest))]
        ELSE [matched |-> FALSE, guessStr |-> "", playersSection |-> <<>>]

\* /<@!?(\d+)>/ tried at position i: the position after the match, 0 when
\* there is no match at i
mentionEnd(section, i) ==
  LET d == IF i + 2 <= Len(section) /\ section[i + 2] = "!" THEN i + 3 ELSE i + 2
      e == SkipWhile(section, d, DigitChars)
  IN  IF /\ section[i] = "<"
         /\ i + 1 <= Len(section) /\ section[i + 1] = "@"
         /\ e > d
         /\ e <= Len(section) /\ section[e] = ">"
        THEN e + 1 ELSE 0

\* the while loop over mentionRegex.exec from position i: the mentions in
\* order, each with its span and its captured id
RECURSIVE execMentions(_, _)
execMentions(section, i) ==
  IF i > Len(section) THEN <<>>
  ELSE LET e == mentionEnd(section, i)
       IN  IF e = 0 THEN execMentions(section, i + 1)
           ELSE <<[start |-> i, end |-> e,
                   discordId |-> SubSeq(section, SkipBack(section, e - 2, DigitChars) + 1,
                                        e - 2)]>>
                  \o execMentions(section, e)

\* /@(\w+)/ tried at position i: the position after the match, 0 when
\* there is no match at i
usernameEnd(section, i) ==
  IF section[i] = "@" /\ i + 1 <= Len(section) /\ section[i + 1] \in WordChars
    THEN SkipWhile(section, i + 1, WordChars) ELSE 0

\* the while loop over usernameRegex.exec from position i
RECURSIVE execUsernames(_, _)
execUsernames(section, i) ==
  IF i > Len(section) THEN <<>>
  ELSE LET e == usernameEnd(section, i)
       IN  IF e = 0 THEN execUsernames(section, i + 1)
           ELSE <<[start |-> i, end |-> e, username |-> SubSeq(section, i + 1, e - 1)]>>
                  \o execUsernames(section, e)

\* an absent discordId (undefined), and the username '' of a mention
NoId == <<>>
NoName == <<>>
\* what a function returns for null
Null == [null |-> TRUE]

\* parseResultRow keeping the plain usernames found inside a mention
parseResultRowNoSpanCheck(row) ==
  LET m == rowMatch(row)
      mentionPositions == execMentions(m.playersSection, 1)
      plain == execUsernames(m.playersSection, 1)
      rowPlayers == [k \in 1..Len(mentionPositions) |->
                    [discordId |-> mentionPositions[k].discordId, username |-> NoName]]
                 \o [k \in 1..Len(plain) |->
                       [discordId |-> NoId, username |-> plain[k].username]]
  IN  IF ~m.matched \/ rowPlayers = <<>> THEN Null
      ELSE [null |-> FALSE, guessCount |-> parseGuessCount(m.guessStr), players |-> rowPlayers]

\* parseResultRow(row): the mentions first, then the plain usernames that
\* are not inside a mention; null without a match or without players
parseResultRow(row) ==
  LET m == rowMatch(row)
      mentionPositions == execMentions(m.playersSection, 1)
      isInsideMention(u) ==
        \E k \in 1..Len(mentionPositions) :
          u.start >= mentionPositions[k].start /\ u.end <= mentionPositions[k].end
      plain == SelectSeq(execUsernames(m.playersSection, 1),
                         LAMBDA u : ~isInsideMention(u))
      rowPlayers == [k \in 1..Len(mentionPositions) |->
                    [discordId |-> mentionPositions[k].discordId, username |-> NoName]]
                 \o [k \in 1..Len(plain) |->
                       [discordId |-> NoId, username |-> plain[k].username]]
  IN  IF ~m.matched \/ rowPlayers = <<>> THEN Null
      ELSE [null |-> FALSE, guessCount |-> parseGuessCount(m.guessStr), players |-> rowPlayers]

\* parseResultRows giving up at the first line that is not a result row
RECURSIVE parseResultRowsAborting(_, _)
parseResultRowsAborting(content, l) ==
  IF l > Len(content) THEN <<>>
  ELSE
    LET trimmedLine == Trim(content[l])
        parsedRow == parseResultRow(trimmedLine)
    IN  IF trimmedLine = <<>> \/ streakLineTest(trimmedLine)
          THEN parseResultRowsAborting(content, l + 1)
        ELSE IF ~resultShapeTest(trimmedLine) THEN <<>>
        ELSE IF parsedRow.null THEN <<>>
        ELSE [k \in 1..Len(parsedRow.players) |->
                [discordId |-> parsedRow.players[k].discordId,
                 username |-> parsedRow.players[k].username,
                 guessCount |-> parsedRow.guessCount]]
               \o parseResultRowsAborting(content, l + 1)

\* parseResultRows(content), from line l on: one result per player of
\* every line that parseResultRow accepts
RECURSIVE parseResultRows(_, _)
parseResultRows(content, l) ==
  IF l > Len(content) THEN <<>>
  ELSE
    LET trimmedLine == Trim(content[l])
        parsedRow == parseResultRow(trimmedLine)
    IN  IF trimmedLine = <<>> \/ streakLineTest(trimmedLine)
          THEN parseResultRows(content, l + 1)
        ELSE IF ~resultShapeTest(trimmedLine) THEN parseResultRows(content, l + 1)
        ELSE IF parsedRow.null THEN parseResultRows(content, l + 1)
        ELSE [k \in 1..Len(parsedRow.players) |->
                [discordId |-> parsedRow.players[k].discordId,
                 username |-> parsedRow.players[k].username,
                 guessCount |-> parsedRow.guessCount]]
               \o parseResultRows(content, l + 1)

\* parseWordleMessage(message), on a host in time zone zone
parseWordleMessage(msg, zone) ==
  LET results == parseResultRows(msg.content, 1)
  IN  IF ~containsWordleResults(msg.content) THEN Null
      ELSE IF results = <<>> THEN Null
      ELSE [null |-> FALSE, gameDate |-> ParseGameDate(msg.createdAt, zone),
            results |-> results]

Terminal == {"ignored", "notQualifying", "skipped", "noNew", "failed", "done"}

\* the members named on the line of message.content that starts with the
\* crown: the announcement's first result line, which lists everybody with
\* the day's best guess count. parseResultRow matches the glyph and does
\* not capture it, so the message text is the only place that has it
CrownLine(rows) ==
  {rows[i].discordId : i \in {j \in 1..Len(rows) : rows[j].guessCount = rows[1].guessCount}}

\* a handler invocation: where it is suspended or how it ended, and its
\* locals while it runs (author: message.author; rows: parsed.results inside
\* parseAndResolveWordleMessage; gameDate, results: dailyResults)
\* err, writes: history of a run that threw (what threw, and how many
\* store writes of the second loop had completed)
NewHandler(pc, gameDate, rows) ==
  [pc |-> pc, gameDate |-> gameDate, rows |-> rows, results |-> <<>>,
   eloResults |-> <<>>, err |-> "none", writes |-> 0,
   crownLine |-> CrownLine(rows), author |-> "wordle"]

\* the handler has returned: its locals are gone
Ended(pc, err, writes) ==
  [NewHandler(pc, NoDate, <<>>) EXCEPT !.err = err, !.writes = writes]

\* isWordleMessage taking every author for the Wordle bot
isWordleMessageAnyAuthor(author) == TRUE

\* isWordleMessage: message.author.id === wordleBotId
isWordleMessage(author) == author = "wordle"

\* a message arrives: the author checks and parseWordleMessage, up to the
\* first await of resolveUsernames. rows are the player references of its
\* result lines; a text that is no announcement has none
Deliver(author, createdAt, rows) ==
  /\ Len(handlers) < MaxMsgs
  /\ handlers' = Append(handlers,
       [(IF author = "self" \/ ~isWordleMessage(author)
           THEN Ended("ignored", "none", 0)
         ELSE IF rows = <<>> THEN Ended("notQualifying", "none", 0)
         ELSE NewHandler("resolving", ParseGameDate(createdAt, hostZone), rows))
        EXCEPT !.author = author])
  /\ UNCHANGED <<store, faults, summaryRun, incremented, sent, engine, hostZone, parser, settings>>

\* resolveUsernames: the rows whose member lookup succeeds, in input order;
\* members are the users the guild resolves (none when the fetch fails)
Resolve(h, members) ==
  /\ handlers[h].pc = "resolving"
  /\ LET found == SelectSeq(handlers[h].rows, LAMBDA r : r.discordId \in members)
         resolved == [k \in 1..Len(found) |->
                        [discordId |-> found[k].discordId,
                         username |-> Username(found[k].discordId),
                         guessCount |-> found[k].guessCount]]
     IN  handlers' = [handlers EXCEPT ![h] =
           IF resolved = <<>> THEN Ended("notQualifying", "none", 0)
           ELSE [@ EXCEPT !.pc = "resolved", !.rows = <<>>, !.results = resolved]]
  /\ UNCHANGED <<store, faults, summaryRun, incremented, sent, engine, hostZone, parser, settings>>

\* the calls counted so far, and one more for every player of ids
Counted(count, ids) ==
  [id \in DOMAIN count \cup ids |->
     (IF id \in DOMAIN count THEN count[id] ELSE 0) + (IF id \in ids THEN 1 ELSE 0)]

\* from the return of parseAndResolveWordleMessage to the await of
\* updateRoles: duplicate check, processDailyResults, updatePlayerActivity
Process(h, fault) ==
  /\ handlers[h].pc = "resolved"
  /\ LET hd == handlers[h]
         r == processDailyResults(players, games, eloHistory, hd.results, hd.gameDate, fault)
     IN  IF isDailyResultsProcessed(dailySummaries, hd.gameDate)
           THEN /\ fault = 0
                /\ handlers' = [handlers EXCEPT ![h] = Ended("skipped", "none", 0)]
                /\ UNCHANGED <<store, faults, summaryRun, incremented, sent, engine, hostZone, parser, settings>>
         ELSE /\ fault # 0 => (faults < MaxFaults /\ r.threw = "fault")
              /\ faults' = IF fault # 0 THEN faults + 1 ELSE faults
              /\ games' = r.games
              /\ eloHistory' = r.eloHistory
              /\ UNCHANGED <<dailySummaries, summaryRun, sent, engine, hostZone, parser, settings>>
              /\ IF r.threw # "none"
                   THEN /\ players' = r.players
                        /\ UNCHANGED incremented
                        /\ handlers' = [handlers EXCEPT ![h] = Ended("failed", r.threw, r.writes)]
                 ELSE IF Len(r.calculationResults) = 0
                   THEN /\ players' = r.players
                        /\ UNCHANGED incremented
                        /\ handlers' = [handlers EXCEPT ![h] = Ended("noNew", "none", 0)]
                 ELSE /\ players' = updatePlayerActivity(r.players, r.games, hd.gameDate,
                                                         InactivityThreshold)
                      /\ incremented' = [incremented EXCEPT ![hd.gameDate] =
                           Counted(@, getPlayersWhoDidntPlay(r.players, r.games, hd.gameDate))]
                      /\ handlers' = [handlers EXCEPT ![h].pc = "roles",
                                                      ![h].eloResults = r.calculationResults]

\* updateRoles has returned (it catches its own errors): the standings are
\* read and saveDailySummary runs, up to the await of message.reply. The row
\* order of the two SELECTs is not fixed by the query, so [0] is any of the
\* rows selected. fault: the INSERT throws
RolesDone(h, highest, lowest, fault) ==
  /\ handlers[h].pc = "roles"
  /\ LET hs == getHighestEloPlayers(players)
         ls == getLowestEloPlayers(players)
     IN  /\ highest \in (IF hs = {} THEN {0} ELSE hs)
         /\ lowest \in (IF ls = {} THEN {0} ELSE ls)
  /\ IF fault
       THEN /\ faults < MaxFaults
            /\ highest = 0 \/ highest = Min(getHighestEloPlayers(players))
            /\ lowest = 0 \/ lowest = Min(getLowestEloPlayers(players))
            /\ faults' = faults + 1
            /\ handlers' = [handlers EXCEPT ![h] = Ended("failed", "fault", 0)]
            /\ UNCHANGED <<store, summaryRun, incremented, sent, engine, hostZone, parser, settings>>
       ELSE /\ dailySummaries' = saveDailySummary(dailySummaries, handlers[h].gameDate,
                                   Len(handlers[h].eloResults), highest, lowest)
            /\ summaryRun' = [summaryRun EXCEPT ![handlers[h].gameDate] =
                                {handlers[h].eloResults[k].playerId :
                                   k \in 1..Len(handlers[h].eloResults)}]
            /\ handlers' = [handlers EXCEPT ![h].pc = "replying"]
            /\ UNCHANGED <<players, games, eloHistory, faults, incremented, sent, engine,
                           hostZone, parser, settings>>

\* message.reply has settled (a rejection is caught and logged)
ReplyDone(h) ==
  /\ handlers[h].pc = "replying"
  /\ handlers' = [handlers EXCEPT ![h] = Ended("done", "none", 0)]
  /\ UNCHANGED <<store, faults, summaryRun, incremented, sent, engine, hostZone, parser, settings>>

NoMsg == [createdAt |-> 0, rows |-> <<>>]

EmptyStore ==
  /\ players = <<>>
  /\ games = <<>>
  /\ eloHistory = <<>>
  /\ dailySummaries = {}
  /\ handlers = <<>>
  /\ faults = 0
  /\ summaryRun = [d \in SeedDates \cup Dates |-> {}]
  /\ incremented = [d \in SeedDates \cup Dates |-> <<>>]

EngineIdle ==
  /\ engineInput = <<>>
  /\ engineOutput = <<>>
  /\ engineDone = FALSE

\* parseWordleMessage and resolveUsernames are not run on their own
NoMessage == [createdAt |-> 0, content |-> <<>>]
NoGuild == [present |-> FALSE, members |-> <<>>, fetchAllFails |-> FALSE, failing |-> {}]
ParserIdle ==
  /\ message = NoMessage
  /\ parsed = <<>>
  /\ guild = NoGuild
  /\ resolvedResults = <<>>
  /\ parserPc = "idle"

\* getConfig is not called on its own: the handler gets the configuration
\* that main loaded, here the defaults of loadConfig
NoEnv == [set |-> FALSE, value |-> <<>>]
NoConfig == [null |-> TRUE]
ConfigIdle ==
  /\ env = [token |-> TRUE, kFactor |-> NoEnv, defaultRating |-> NoEnv,
            inactivityThreshold |-> NoEnv]
  /\ configInstance = NoConfig
  /\ configReturn = [called |-> FALSE]
  /\ configCalls = 0

(* ---- Spec: any messages, handlers interleaved at their awaits --------- *)

Init == EmptyStore /\ sent = NoMsg /\ EngineIdle /\ hostZone = UTCZone /\ ConfigIdle /\ ParserIdle

Run ==
  \/ \E h \in 1..Len(handlers), members \in SUBSET Users : Resolve(h, members)
  \/ \E h \in 1..Len(handlers), fault \in 0..(3 * MaxRows) : Process(h, fault)
  \/ \E h \in 1..Len(handlers), highest \in 0..Len(players), lowest \in 0..Len(players),
        fault \in BOOLEAN : RolesDone(h, highest, lowest, fault)
  \/ \E h \in 1..Len(handlers) : ReplyDone(h)

Next ==
  \/ \E author \in Authors, day \in 2..(MaxDates + 1), rows \in Rows :
       Deliver(author, Noon(day), rows)
  \/ Run

Spec == Init /\ [][Next]_vars

(* ---- SpecTwice: one announcement, delivered again once the handler of   *)
(* ---- the previous delivery has returned ------------------------------- *)

InitTwice ==
  /\ EmptyStore
  /\ EngineIdle
  /\ hostZone = UTCZone /\ ConfigIdle
  /\ ParserIdle
  /\ sent \in {[createdAt |-> Noon(day), rows |-> r] :
                 day \in 2..(MaxDates + 1), r \in Rows \ {<<>>}}

DeliverSent ==
  /\ \A h \in 1..Len(handlers) : handlers[h].pc \in Terminal
  /\ Deliver("wordle", sent.createdAt, sent.rows)

NextTwice == DeliverSent \/ Run

SpecTwice == InitTwice /\ [][NextTwice]_vars

(* ---- SpecRedeliver: one announcement, delivered again for ever -------- *)

\* the handler invocations that have returned are gone
Forget ==
  /\ Len(handlers) = MaxMsgs
  /\ \A h \in 1..Len(handlers) : handlers[h].pc \in Terminal
  /\ handlers' = <<>>
  /\ UNCHANGED <<store, faults, summaryRun, incremented, sent, engine, hostZone, parser, settings>>

NextRedeliver == DeliverSent \/ Run \/ Forget

\* the event loop runs every handler on to its next await or its return,
\* and the announcement keeps being delivered: weak fairness of every
\* step. For the step from the duplicate check on (Process, enabled exactly
\* while a handler stands at "resolved", and at most one handler runs here)
\* it is written with the enabling condition
SpecRedeliver ==
  /\ InitTwice
  /\ [][NextRedeliver]_vars
  /\ WF_vars(DeliverSent)
  /\ WF_vars(Forget)
  /\ WF_vars(\E h \in 1..Len(handlers), members \in SUBSET Users : Resolve(h, members))
  /\ []<>(\A h \in 1..Len(handlers) : handlers[h].pc # "resolved")
  /\ WF_vars(\E h \in 1..Len(handlers), highest \in 0..Len(players),
                lowest \in 0..Len(players), fault \in BOOLEAN :
                  RolesDone(h, highest, lowest, fault))
  /\ WF_vars(\E h \in 1..Len(handlers) : ReplyDone(h))

(* ---- SpecSeeded: one announcement, handled on a store that earlier     *)
(* ---- runs have filled ------------------------------------------------- *)

\* a whole sequential run of the handler for gameDate, every row resolved:
\* processDailyResults, updatePlayerActivity, then saveDailySummary, which
\* is left out when summarised is FALSE (the INSERT threw)
SeedRun(st, results, gameDate, summarised) ==
  LET r == processDailyResults(st.players, st.games, st.eloHistory, results, gameDate, 0)
      pl == updatePlayerActivity(r.players, r.games, gameDate, InactivityThreshold)
      hs == getHighestEloPlayers(pl)
      ls == getLowestEloPlayers(pl)
  IN  [players |-> pl, games |-> r.games, eloHistory |-> r.eloHistory,
       dailySummaries |->
         IF summarised
           THEN saveDailySummary(st.dailySummaries, gameDate, Len(r.calculationResults),
                                 IF hs = {} THEN 0 ELSE Min(hs),
                                 IF ls = {} THEN 0 ELSE Min(ls))
           ELSE st.dailySummaries]

\* the announcements of the earlier days: both members play, member 2 plays
\* alone, or member 1 plays alone under the username it had then
SeedResults ==
  {<<[discordId |-> 1, username |-> Username(1), guessCount |-> 3],
     [discordId |-> 2, username |-> Username(2), guessCount |-> FailedGuess]>>,
   <<[discordId |-> 2, username |-> Username(2), guessCount |-> 3]>>,
   <<[discordId |-> 1, username |-> OldUsername(1), guessCount |-> 3]>>}

\* the store after the runs for days, one a day up to the day -1; only the
\* last of them may have lost its summary
RECURSIVE SeedStore(_, _, _, _)
SeedStore(days, k, st, lastSummarised) ==
  IF k > Len(days) THEN st
  ELSE SeedStore(days, k + 1,
         SeedRun(st, days[k], k - Len(days) - 1, k < Len(days) \/ lastSummarised),
         lastSummarised)

Seeds ==
  {SeedStore(days, 1, [players |-> <<>>, games |-> <<>>, eloHistory |-> <<>>,
                       dailySummaries |-> {}], lastSummarised) :
     days \in UNION {[1..n -> SeedResults] : n \in 0..MaxSeedDays},
     lastSummarised \in BOOLEAN}

InitSeeded ==
  /\ \E st \in Seeds :
       /\ players = st.players
       /\ games = st.games
       /\ eloHistory = st.eloHistory
       /\ dailySummaries = st.dailySummaries
  /\ handlers = <<>>
  /\ faults = 0
  /\ summaryRun = [d \in SeedDates \cup Dates |-> {}]
  /\ incremented = [d \in SeedDates \cup Dates |-> <<>>]
  /\ sent = NoMsg
  /\ EngineIdle
  /\ hostZone = UTCZone /\ ConfigIdle
  /\ ParserIdle

\* the one announcement: of the last day before the first state, or later
DeliverOne ==
  /\ handlers = <<>>
  /\ \E day \in {0} \cup 2..(MaxDates + 1), rows \in Rows \ {<<>>} :
       Deliver("wordle", Noon(day), rows)

NextSeeded == DeliverOne \/ Run

SpecSeeded == InitSeeded /\ [][NextSeeded]_vars

(* ---- SpecEarlier: any messages, on a store that holds the player of    *)
(* ---- an earlier day ---------------------------------------------------- *)

\* a member who played on the day before the first date, alone, and is
\* not named by any announcement afterwards
EarlierMember == MaxUsers + 1

InitEarlier ==
  /\ LET st == SeedRun([players |-> <<>>, games |-> <<>>, eloHistory |-> <<>>,
                        dailySummaries |-> {}],
                       <<[discordId |-> EarlierMember, username |-> Username(EarlierMember),
                          guessCount |-> 3]>>, 0 - 1, TRUE)
     IN  /\ players = st.players
         /\ games = st.games
         /\ eloHistory = st.eloHistory
         /\ dailySummaries = st.dailySummaries
  /\ handlers = <<>>
  /\ faults = 0
  /\ summaryRun = [d \in SeedDates \cup Dates |-> {}]
  /\ incremented = [d \in SeedDates \cup Dates |-> <<>>]
  /\ sent = NoMsg
  /\ EngineIdle
  /\ hostZone = UTCZone /\ ConfigIdle
  /\ ParserIdle

SpecEarlier == InitEarlier /\ [][Next]_vars

(* ---- resolveUsernames (services/statsService) -------------------------- *)

\* message.guild: whether there is one, its members in the order of the
\* collection that guild.members.fetch() resolves to (id, user.username,
\* displayName, nickname; NoName for a null nickname), whether that fetch
\* rejects, and the ids for which guild.members.fetch(id) rejects although
\* the id is a member's
\*
\* guild.members.fetch(discordId): the position of the member, 0 when the
\* promise rejects (no such member, or the request fails)
fetchMember(g, discordId) ==
  LET at == {k \in 1..Len(g.members) : g.members[k].id = discordId}
  IN  IF at = {} \/ discordId \in g.failing THEN 0 ELSE Min(at)

\* guildMembers.find(...): the first member of the collection one of whose
\* three names is searchName in lower case, 0 when there is none
findMember(members, searchName) ==
  LET matching ==
        {k \in 1..Len(members) :
           \/ toLowerCase(members[k].username) = searchName
           \/ toLowerCase(members[k].displayName) = searchName
           \/ (members[k].nickname # NoName
                 /\ toLowerCase(members[k].nickname) = searchName)}
  IN  IF matching = {} THEN 0 ELSE Min(matching)

\* the for loop of resolveUsernames from result k on: a result that does
\* not resolve is skipped
RECURSIVE resolveEach(_, _, _)
resolveEach(results, g, k) ==
  IF k > Len(results) THEN <<>>
  ELSE
    LET result == results[k]
        member == fetchMember(g, result.discordId)
        matchingMember == findMember(g.members, toLowerCase(result.username))
    IN  (IF result.discordId # NoId
           THEN IF member # 0
                  THEN <<[discordId |-> result.discordId,
                          username |-> g.members[member].username,
                          guessCount |-> result.guessCount]>>
                  ELSE <<>>
         ELSE IF result.username # NoName /\ matchingMember # 0
           THEN <<[discordId |-> g.members[matchingMember].id,
                   username |-> g.members[matchingMember].username,
                   guessCount |-> result.guessCount]>>
         ELSE <<>>)
        \o resolveEach(results, g, k + 1)

\* the for loop with the try around it: the first result that does not
\* resolve ends it
RECURSIVE resolveUntilFailure(_, _, _)
resolveUntilFailure(results, g, k) ==
  IF k > Len(results) THEN <<>>
  ELSE LET one == resolveEach(<<results[k]>>, g, 1)
       IN  IF one = <<>> THEN <<>> ELSE one \o resolveUntilFailure(results, g, k + 1)

\* resolveUsernames giving up at the first result that does not resolve
resolveUsernamesAborting(results, g) ==
  IF ~g.present \/ g.fetchAllFails THEN <<>> ELSE resolveUntilFailure(results, g, 1)

\* resolveUsernames passing over the results without a discordId
resolveUsernamesMentionsOnly(results, g) ==
  IF ~g.present \/ g.fetchAllFails THEN <<>>
  ELSE resolveEach(SelectSeq(results, LAMBDA r : r.discordId # NoId), g, 1)

\* resolveUsernames(results, message)
resolveUsernames(results, g) ==
  IF ~g.present THEN <<>>
  ELSE IF g.fetchAllFails THEN <<>>
  ELSE resolveEach(results, g, 1)

(* ---- SpecDate, SpecRow, SpecParse: parseWordleMessage alone ----------- *)

\* a text from the pieces it is written with
RECURSIVE Text(_)
Text(pieces) ==
  IF pieces = <<>> THEN <<>>
  ELSE (IF Head(pieces) \in {Crown, StreakText} THEN <<Head(pieces)>>
        ELSE CASE Head(pieces) = "3/6: " -> <<"3", "/", "6", ":", " ">>
               [] Head(pieces) = "x/6: " -> <<"x", "/", "6", ":", " ">>
               [] Head(pieces) = "X/6:" -> <<"X", "/", "6", ":">>
               [] Head(pieces) = "<@1>" -> <<"<", "@", "1", ">">>
               [] Head(pieces) = "<@!2>" -> <<"<", "@", "!", "2", ">">>
               [] Head(pieces) = "<@12>" -> <<"<", "@", "1", "2", ">">>
               [] Head(pieces) = "<@a>" -> <<"<", "@", "a", ">">>
               [] Head(pieces) = "@Al" -> <<"@", "A", "l">>
               [] Head(pieces) = "hello" -> <<"h", "e", "l", "l", "o">>
               [] Head(pieces) = "2/6: " -> <<"2", "/", "6", ":", " ">>
               [] Head(pieces) = "<@111>" -> <<"<", "@", "1", "1", "1", ">">>
               [] Head(pieces) = "<@2>" -> <<"<", "@", "2", ">">>
               [] Head(pieces) = "<@9>" -> <<"<", "@", "9", ">">>
               [] Head(pieces) = "@alice" -> <<"@", "a", "l", "i", "c", "e">>
               [] Head(pieces) = "@Alice" -> <<"@", "A", "l", "i", "c", "e">>
               [] Head(pieces) = "2" -> <<"2">>
               [] Head(pieces) = "@bob" -> <<"@", "b", "o", "b">>
               [] Head(pieces) = "alice" -> <<"a", "l", "i", "c", "e">>
               [] Head(pieces) = "Alice" -> <<"A", "l", "i", "c", "e">>
               [] Head(pieces) = "bob" -> <<"b", "o", "b">>
               [] Head(pieces) = "zed" -> <<"z", "e", "d">>
               [] Head(pieces) = "111" -> <<"1", "1", "1">>
               [] OTHER -> <<Head(pieces)>>)
       \o Text(Tail(pieces))

parseMessage ==
  /\ parserPc = "idle"
  /\ parsed' = parseWordleMessage(message, hostZone)
  /\ parserPc' = "parsed"
  /\ UNCHANGED <<store, handlers, faults, summaryRun, incremented, sent, engine, hostZone,
                 message, guild, resolvedResults, settings>>

\* the days on which the calendar or a zone of Zones does something
CalendarEvents ==
  {MakeDay(EpochYear, 1, 1), MakeDay(EpochYear, 3, 1), MakeDay(EpochYear, 3, 10),
   MakeDay(EpochYear, 3, 31), MakeDay(EpochYear, 10, 27), MakeDay(EpochYear, 11, 1),
   MakeDay(EpochYear, 11, 3)}

\* every full hour of the days around them
Stamps ==
  {HoursPerDay * day + h :
     day \in UNION {(e - MaxDaysAround)..(e + MaxDaysAround) : e \in CalendarEvents},
     h \in 0..(HoursPerDay - 1)}

InitDate ==
  /\ EmptyStore
  /\ sent = NoMsg
  /\ EngineIdle
  /\ hostZone \in Zones /\ ConfigIdle
  /\ \E createdAt \in Stamps :
       message = [createdAt |-> createdAt,
                  content |-> <<Text(<<StreakText>>), Text(<<Crown, " ", "3/6: ", "<@1>">>)>>]
  /\ parsed = <<>>
  /\ guild = NoGuild
  /\ resolvedResults = <<>>
  /\ parserPc = "idle"

NextDate == parseMessage

SpecDate == InitDate /\ [][NextDate]_vars

\* the lines a message text is made of: the streak line, result rows (with
\* the crown, with an upper-case X, with white space around, with a plain
\* username), a row without players, a row pattern that is not at the
\* start of its line, lines holding both the streak text and a row, plain
\* text, an empty line and a blank one
Lines ==
  {Text(<<StreakText>>),
   Text(<<Crown, " ", "3/6: ", "<@1>">>),
   Text(<<"x/6: ", "<@!2>">>),
   Text(<<"X/6:", "<@1>">>),
   Text(<<" ", "3/6: ", "@Al", " ">>),
   Text(<<"3/6: ", "hello">>),
   Text(<<"hello", " ", "3/6: ", "<@1>">>),
   Text(<<StreakText, " ", "3/6: ", "<@1>">>),
   Text(<<"3/6: ", "<@1>", " ", StreakText>>),
   Text(<<"hello">>),
   Text(<<>>),
   Text(<<" ">>)}

InitParse ==
  /\ EmptyStore
  /\ sent = NoMsg
  /\ EngineIdle
  /\ hostZone = UTCZone /\ ConfigIdle
  /\ \E content \in UNION {[1..n -> Lines] : n \in 0..MaxLines} :
       message = [createdAt |-> Noon(2), content |-> content]
  /\ parsed = <<>>
  /\ guild = NoGuild
  /\ resolvedResults = <<>>
  /\ parserPc = "idle"

NextParse == parseMessage

SpecParse == InitParse /\ [][NextParse]_vars

\* the pieces the text after the colon of a result row is made of:
\* mentions, a mention of something that is no id, a plain username, and
\* the characters they are written with
Pieces == {"<@1>", "<@!2>", "<@12>", "<@a>", "@Al", " ", "<", ">", "@", "!", "1", "a", "_"}

\* SpecRow: a streak line and one result row
InitRow ==
  /\ EmptyStore
  /\ sent = NoMsg
  /\ EngineIdle
  /\ hostZone = UTCZone /\ ConfigIdle
  /\ \E head \in {<<"3/6: ">>, <<Crown, "x/6: ">>},
        section \in UNION {[1..n -> Pieces] : n \in 0..MaxPieces} :
       message = [createdAt |-> Noon(2),
                  content |-> <<Text(<<StreakText>>), Text(head \o section)>>]
  /\ parsed = <<>>
  /\ guild = NoGuild
  /\ resolvedResults = <<>>
  /\ parserPc = "idle"

NextRow == parseMessage

SpecRow == InitRow /\ [][NextRow]_vars

(* ---- SpecResolve: parseWordleMessage, then resolveUsernames ----------- *)

resolveParsed ==
  /\ parserPc = "parsed"
  /\ ~parsed.null
  /\ resolvedResults' = resolveUsernames(parsed.results, guild)
  /\ parserPc' = "resolved"
  /\ UNCHANGED <<store, handlers, faults, summaryRun, incremented, sent, engine, hostZone,
                 message, parsed, guild, settings>>

\* the result rows of the announcements
ResolveLines ==
  {Text(<<Crown, " ", "2/6: ", "@alice", " ", "<@111>">>),
   Text(<<"3/6: ", "<@2>">>),
   Text(<<"3/6: ", "<@9>">>),
   Text(<<"x/6: ", "@bob">>),
   Text(<<"x/6: ", "@Alice">>)}

\* the members a guild may have: under an id, a user with or without a
\* nickname or a display name of its own
Member(id, username, displayName, nickname) ==
  [id |-> Text(<<id>>), username |-> Text(<<username>>),
   displayName |-> Text(<<displayName>>),
   nickname |-> IF nickname = "" THEN NoName ELSE Text(<<nickname>>)]

MemberChoices ==
  {Member("111", "alice", "alice", ""),
   Member("111", "zed", "Alice", "Alice"),
   Member("2", "bob", "bob", ""),
   Member("2", "alice", "alice", ""),
   Member("2", "bob", "Alice", "")}

Guilds ==
  {[present |-> present, members |-> members, fetchAllFails |-> fetchAllFails,
    failing |-> failing] :
     present \in BOOLEAN, fetchAllFails \in BOOLEAN,
     failing \in SUBSET {Text(<<"111">>), Text(<<"2">>)},
     members \in {m \in UNION {[1..n -> MemberChoices] : n \in 0..MaxMembers} :
                    \A i, j \in 1..Len(m) : i # j => m[i].id # m[j].id}}

InitResolve ==
  /\ EmptyStore
  /\ sent = NoMsg
  /\ EngineIdle
  /\ hostZone = UTCZone /\ ConfigIdle
  /\ \E rows \in UNION {[1..n -> ResolveLines] : n \in 1..(MaxLines - 1)} :
       message = [createdAt |-> Noon(2), content |-> <<Text(<<StreakText>>)>> \o rows]
  /\ parsed = <<>>
  /\ guild \in Guilds
  /\ resolvedResults = <<>>
  /\ parserPc = "idle"

NextResolve == parseMessage \/ resolveParsed

SpecResolve == InitResolve /\ [][NextResolve]_vars

(* ---- SpecElo: calculatePairwiseElo alone, on one round ---------------- *)

EngineRatings == {DefaultRating, DefaultRating + 400}
EngineGuessTokens == {"2", "3", "4", "5", "x"}
EngineGuesses == {parseGuessCount(t) : t \in EngineGuessTokens}

\* the rounds handed to the engine: every entry is a player of its own or
\* names the first entry's player again, with that player's rating
\* (processDailyResults pushes one entry per resolved row, so a player
\* listed twice is there twice)
Rounds ==
  UNION {{r \in [1..n -> [playerId : 1..n, currentElo : EngineRatings,
                          guessCount : EngineGuesses]] :
            \A i \in 1..n :
              /\ r[i].playerId \in {1, i}
              /\ r[i].playerId = 1 => r[i].currentElo = r[1].currentElo} : n \in 0..MaxElo}

InitElo ==
  /\ EmptyStore
  /\ sent = NoMsg
  /\ hostZone = UTCZone /\ ConfigIdle
  /\ ParserIdle
  /\ engineInput \in Rounds
  /\ engineOutput = <<>>
  /\ engineDone = FALSE

Rate ==
  /\ ~engineDone
  /\ engineOutput' = calculatePairwiseElo(engineInput, KFactor)
  /\ engineDone' = TRUE
  /\ UNCHANGED <<store, handlers, faults, summaryRun, incremented, sent, engineInput, hostZone, parser, settings>>

NextElo == Rate

SpecElo == InitElo /\ [][NextElo]_vars


(* ---- SpecConfig: getConfig (config/index), called again and again ---- *)

MaxCalls == 2           \* calls of getConfig
MaxEnvLen == 2          \* characters of the value of an environment variable

\* the value of the decimal digit c
DigitValue(c) == CHOOSE d \in 0..9 : ToString(d) = c

\* the number the decimal digits text[i..j] spell
RECURSIVE DigitsValue(_, _, _)
DigitsValue(text, i, j) ==
  IF j < i THEN 0 ELSE 10 * DigitsValue(text, i, j - 1) + DigitValue(text[j])

\* parseInt(value, 10): leading white space, a sign, then the longest run
\* of decimal digits; NaN when there is no digit
parseInt(text) ==
  LET s == SkipWhile(text, 1, {" "})
      signed == s <= Len(text) /\ text[s] \in {"+", "-"}
      d == IF signed THEN s + 1 ELSE s
      e == SkipWhile(text, d, DigitChars)
      n == DigitsValue(text, d, e - 1)
  IN  IF e = d THEN [nan |-> TRUE, value |-> 0]
      ELSE [nan |-> FALSE, value |-> IF signed /\ text[s] = "-" THEN 0 - n ELSE n]

\* getNumericEnv(key, defaultValue), e being process.env[key]: the default
\* for an unset or empty value, a throw for one that parseInt cannot read
getNumericEnv(e, defaultValue) ==
  IF ~e.set \/ e.value = <<>> THEN [threw |-> FALSE, value |-> defaultValue]
  ELSE IF parseInt(e.value).nan THEN [threw |-> TRUE, value |-> 0]
  ELSE [threw |-> FALSE, value |-> parseInt(e.value).value]

\* loadConfig: the required variables (token: all of them are set), then
\* the three numbers; any throw leaves no configuration
loadConfig(e) ==
  LET kFactor == getNumericEnv(e.kFactor, KFactor)
      defaultRating == getNumericEnv(e.defaultRating, DefaultRating)
      inactivityThreshold == getNumericEnv(e.inactivityThreshold, InactivityThreshold)
  IN  IF ~e.token \/ kFactor.threw \/ defaultRating.threw \/ inactivityThreshold.threw
        THEN [threw |-> TRUE, config |-> NoConfig]
        ELSE [threw |-> FALSE,
              config |-> [null |-> FALSE, kFactor |-> kFactor.value,
                          defaultRating |-> defaultRating.value,
                          inactivityThreshold |-> inactivityThreshold.value]]

\* validateConfig(config): does it throw
validateConfig(config) ==
  \/ config.kFactor <= 0
  \/ config.defaultRating < 0
  \/ config.inactivityThreshold < 1

\* getConfig(): configInstance afterwards, and what the call returned
getConfig(instance, e) ==
  IF instance.null
    THEN LET loaded == loadConfig(e)
         IN  IF loaded.threw
               THEN [instance |-> instance, threw |-> TRUE, config |-> NoConfig]
             ELSE IF validateConfig(loaded.config)
               THEN [instance |-> loaded.config, threw |-> TRUE, config |-> NoConfig]
             ELSE [instance |-> loaded.config, threw |-> FALSE, config |-> loaded.config]
    ELSE [instance |-> instance, threw |-> FALSE, config |-> instance]

\* a caller calls getConfig() and catches what it throws
callGetConfig ==
  /\ configCalls < MaxCalls
  /\ LET r == getConfig(configInstance, env)
     IN  /\ configInstance' = r.instance
         /\ configReturn' = [called |-> TRUE, threw |-> r.threw, config |-> r.config]
  /\ configCalls' = configCalls + 1
  /\ UNCHANGED <<store, handlers, faults, summaryRun, incremented, sent, engine, hostZone, parser, env>>

\* the values of a variable: unset, or a text of digits, a sign, a blank
\* and a letter
EnvValues ==
  {NoEnv} \cup {[set |-> TRUE, value |-> v] :
                  v \in UNION {[1..n -> {"0", "3", "-", " ", "x"}] : n \in 0..MaxEnvLen}}

InitConfig ==
  /\ EmptyStore
  /\ sent = NoMsg
  /\ EngineIdle
  /\ hostZone = UTCZone
  /\ ParserIdle
  /\ env \in [token : BOOLEAN, kFactor : EnvValues, defaultRating : EnvValues,
               inactivityThreshold : EnvValues]
  /\ configInstance = NoConfig
  /\ configReturn = [called |-> FALSE]
  /\ configCalls = 0

SpecConfig == InitConfig /\ [][callGetConfig]_vars


(* ======================================================================= *)
(* Properties                                                              *)
(* ======================================================================= *)

HandlerIds == 1..Len(handlers)
HasSummary(d) == \E s \in dailySummaries : s.gameDate = d
HasRecord(gm, id, d) == \E k \in 1..Len(gm) : gm[k].playerId = id /\ gm[k].gameDate = d
RecordsOf(gm, id) == {k \in 1..Len(gm) : gm[k].playerId = id}
KnownPlayer(pl, discordId) == \E id \in 1..Len(pl) : pl[id].discordId = discordId
PlayerOf(pl, discordId) == CHOOSE id \in 1..Len(pl) : pl[id].discordId = discordId

\* handler h takes a step
Steps(h) == h \in HandlerIds /\ handlers'[h] # handlers[h]

\* handler h runs processDailyResults in this step
Processes(h) ==
  /\ h \in HandlerIds
  /\ handlers[h].pc = "resolved"
  /\ handlers'[h].pc \in {"roles", "failed", "noNew"}

\* C1: the same qualifying announcement processed twice in sequence, the
\* first run completing: once the first handler is done, no step of a later
\* handler changes players, games, rating history or daily summaries, and a
\* later handler only ever ends skipped (or, when no row resolves, before
\* the duplicate check)
C1_SecondRunIsNoOp ==
  [][(\E h1 \in HandlerIds : handlers[h1].pc = "done")
       => /\ store' = store
          /\ \A h \in 1..Len(handlers') :
               (\E h1 \in 1..(h - 1) : handlers[h1].pc = "done")
                 => handlers'[h].pc \in {"resolving", "resolved", "skipped", "notQualifying"}]_vars

\* C1 happens: a first run is done and the run of the second delivery has
\* been skipped at the duplicate check
C1_Witness ==
  \E h1, h2 \in HandlerIds :
    h1 < h2 /\ handlers[h1].pc = "done" /\ handlers[h2].pc = "skipped"

\* C2: every player's rating is the default rating plus the sum of the
\* rating changes of the player's game records
C2_RatingIsSumOfRecords ==
  \A id \in 1..Len(players) :
    players[id].elo =
      DefaultRating + SumOver([k \in RecordsOf(games, id) |-> games[k].eloChange],
                              RecordsOf(games, id))

\* C3: at most one game record per (player, date)
C3_OneRecordPerPlayerDate ==
  \A i, j \in 1..Len(games) :
    (games[i].playerId = games[j].playerId /\ games[i].gameDate = games[j].gameDate)
      => i = j

\* C3 happens: a second insert for a (player, date) was attempted and refused
C3_Witness ==
  /\ games # <<>>
  /\ \E h \in HandlerIds : handlers[h].pc = "failed" /\ handlers[h].err = "unique"

\* C4: a run whose target date already has a daily summary ends skipped,
\* whatever its rows, and none of its steps writes to the store
C4_ProcessedDateIsSkipped ==
  [][\A h \in HandlerIds :
       (Steps(h) /\ handlers[h].pc \in {"resolving", "resolved"}
                 /\ HasSummary(handlers[h].gameDate))
         => /\ store' = store
            /\ handlers'[h].pc \in {"resolved", "skipped", "notQualifying"}]_vars

\* C4 happens: a run was skipped at the duplicate check while the store
\* holds the summary of that date
C4_Witness ==
  /\ dailySummaries # {}
  /\ \E h \in HandlerIds : handlers[h].pc = "skipped"

\* C5: the daily summary is written after the per-player writes and the
\* activity refresh of its run, by a step that writes nothing else; and
\* whenever a date has a summary, every player counted by the run that wrote
\* it has a game record for the date
C5_SummaryAfterPlayerWrites ==
  /\ [](\A d \in Dates :
          HasSummary(d) =>
            /\ \A id \in summaryRun[d] : HasRecord(games, id, d)
            /\ \A s \in dailySummaries :
                 s.gameDate = d => s.participantsCount = Cardinality(summaryRun[d]))
  /\ [][dailySummaries' # dailySummaries
          => /\ players' = players /\ games' = games /\ eloHistory' = eloHistory
             /\ \E h \in HandlerIds :
                  /\ handlers[h].pc = "roles" /\ handlers'[h].pc = "replying"
                  /\ handlers[h].eloResults # <<>>
                  /\ \A k \in 1..Len(handlers[h].eloResults) :
                       HasRecord(games, handlers[h].eloResults[k].playerId,
                                 handlers[h].gameDate)]_vars

\* C5 happens: a summary was written by a run that rated two players
C5_Witness ==
  \E d \in Dates : HasSummary(d) /\ Cardinality(summaryRun[d]) >= 2

\* the participants of the run handler h is about to make: its resolved
\* rows without the players that have a record for its date
RunRows(h) ==
  SelectSeq(handlers[h].results,
    LAMBDA r : ~(KnownPlayer(players, r.discordId)
                 /\ HasRecord(games, PlayerOf(players, r.discordId), handlers[h].gameDate)))

\* C6: when a store write of the per-player loop throws, nothing is written
\* after it: the rows added to games and to the rating history are those of
\* the participants before the failing one, in order, no player row is
\* updated past the failing participant, no inactive-day counter is
\* incremented and no daily summary is written
C6_NothingAfterFailedWrite ==
  [][\A h \in HandlerIds :
       (Processes(h) /\ handlers'[h].pc = "failed")
         => LET rows == RunRows(h)
                full == handlers'[h].writes \div 3
                part == handlers'[h].writes % 3
                newHist == Len(eloHistory') - Len(eloHistory)
                newGames == Len(games') - Len(games)
                updates == SumOver(
                  [id \in 1..Len(players') |->
                     players'[id].totalGames
                       - (IF id <= Len(players) THEN players[id].totalGames ELSE 0)],
                  1..Len(players'))
            IN  /\ dailySummaries' = dailySummaries
                /\ full < Len(rows)
                /\ newHist = full
                /\ newGames = full + (IF part = 2 THEN 1 ELSE 0)
                /\ updates = full + (IF part >= 1 THEN 1 ELSE 0)
                /\ \A i \in 1..newHist :
                     eloHistory'[Len(eloHistory) + i].playerId
                       = PlayerOf(players', rows[i].discordId)
                /\ \A i \in 1..newGames :
                     games'[Len(games) + i].playerId
                       = PlayerOf(players', rows[i].discordId)
                /\ \A id \in 1..Len(players) :
                     players'[id].consecutiveInactiveDays
                       \in {0, players[id].consecutiveInactiveDays}
                /\ handlers'[h].pc \in Terminal]_vars

\* C6 happens: a run failed after it had written its first participant
C6_Witness ==
  \E h \in HandlerIds :
    /\ handlers[h].pc = "failed" /\ handlers[h].err = "fault"
    /\ handlers[h].writes >= 3
    /\ dailySummaries = {}

\* C7: a run that fails in the per-player loop after it has written some
\* participant and before it has written all leaves the store as it was
C7_FailedRunLeavesNoTrace ==
  [][\A h \in HandlerIds :
       (Processes(h) /\ handlers'[h].pc = "failed" /\ handlers'[h].writes >= 3)
         => store' = store]_vars

\* C8: no handler performs its duplicate check while another handler is
\* between its own duplicate check and its daily summary write
C8_RunsDoNotOverlap ==
  [][\A h \in HandlerIds :
       (Steps(h) /\ handlers[h].pc = "resolved")
         => \A g \in HandlerIds \ {h} : handlers[g].pc # "roles"]_vars

\* C9: a resolved participant who has a game record for the target date is
\* left out of the round: the run leaves the player's row and records as
\* they were, and when the run succeeds the changes of the other
\* participants are those the engine returns for the list without that
\* participant
C9_RecordedParticipantExcluded ==
  [][\A h \in HandlerIds :
       Processes(h)
         => LET d == handlers[h].gameDate
                res == handlers[h].results
                rows == RunRows(h)
                round == [i \in 1..Len(rows) |->
                            [playerId |-> PlayerOf(players', rows[i].discordId),
                             currentElo |->
                               IF KnownPlayer(players, rows[i].discordId)
                                 THEN players[PlayerOf(players, rows[i].discordId)].elo
                                 ELSE DefaultRating,
                             guessCount |-> rows[i].guessCount]]
                changes == calculatePairwiseElo(round, KFactor)
                out == handlers'[h].eloResults
            IN  /\ \A i \in 1..Len(res) :
                     (KnownPlayer(players, res[i].discordId)
                        /\ HasRecord(games, PlayerOf(players, res[i].discordId), d))
                       => LET id == PlayerOf(players, res[i].discordId)
                          IN  /\ players'[id] = players[id]
                              /\ RecordsOf(games', id) = RecordsOf(games, id)
                              /\ \A k \in RecordsOf(games, id) : games'[k] = games[k]
                /\ handlers'[h].pc = "roles"
                     => /\ Len(out) = Len(rows)
                        /\ \A i \in 1..Len(out) :
                             /\ out[i].playerId = round[i].playerId
                             /\ out[i].eloChange = changes[out[i].playerId]
                             /\ players'[out[i].playerId].elo
                                  = round[i].currentElo + out[i].eloChange]_vars

\* C9 happens: a run rated fewer participants than it resolved, the others
\* having a record for the date already
C9_Witness ==
  \E h \in HandlerIds :
    /\ handlers[h].pc = "roles"
    /\ Len(handlers[h].eloResults) < Len(handlers[h].results)
    /\ Len(handlers[h].eloResults) >= 1

\* score - expected of entry i against entry j, in millionths
PairTerm(round, i, j) ==
  (IF round[i].guessCount < round[j].guessCount THEN Unit
   ELSE IF round[i].guessCount = round[j].guessCount THEN Unit \div 2
   ELSE 0)
  - calculateExpectedScore(round[i].currentElo, round[j].currentElo)

\* C10: in a round of n >= 2 participants each participant's delta is
\* round(sum over every other participant j of
\* (kFactor / (n - 1)) * (score_ij - expected_ij)), rounded once
C10_DeltaIsRoundedPairSum ==
  (engineDone /\ Len(engineInput) >= 2)
    => \A i \in 1..Len(engineInput) :
         engineOutput[engineInput[i].playerId]
           = MathRound(
               KFactor * SumOver([j \in (1..Len(engineInput)) \ {i} |->
                                    PairTerm(engineInput, i, j)],
                                 (1..Len(engineInput)) \ {i}),
               (Len(engineInput) - 1) * Unit)


(* ---- the rating engine on one round (SpecElo) ------------------------- *)

Abs(x) == IF x < 0 THEN -x ELSE x
EngineIds == {engineInput[i].playerId : i \in 1..Len(engineInput)}
AllListedOnce ==
  \A i, j \in 1..Len(engineInput) :
    engineInput[i].playerId = engineInput[j].playerId => i = j

\* C11: in a round of n >= 2 participants every participant's |delta| is at
\* most kFactor, whatever n, the ratings and the guess counts
C11_DeltaWithinKFactor ==
  (engineDone /\ Len(engineInput) >= 2)
    => \A i \in 1..Len(engineInput) :
         Abs(engineOutput[engineInput[i].playerId]) <= KFactor


\* the number of entries of the round that name the player of entry i
TimesListed(i) ==
  Cardinality({j \in 1..Len(engineInput) : engineInput[j].playerId = engineInput[i].playerId})

\* C12 as stated: in a round of n >= 2 participants every |delta| is at most
\* the scaled K-factor round(kFactor / (n - 1))
C12_DeltaWithinScaledK ==
  (engineDone /\ Len(engineInput) >= 2)
    => \A i \in 1..Len(engineInput) :
         Abs(engineOutput[engineInput[i].playerId])
           <= MathRound(KFactor, Len(engineInput) - 1)

\* C12 amended: in a round of n >= 2 participants every |delta| is at most
\* kFactor times the number of entries that name the participant's player
\* (kFactor when every player is listed once): the scaled K-factor bounds
\* one matchup's contribution, not the delta
C12_DeltaWithinKFactorPerEntry ==
  (engineDone /\ Len(engineInput) >= 2)
    => \A i \in 1..Len(engineInput) :
         Abs(engineOutput[engineInput[i].playerId]) <= KFactor * TimesListed(i)

\* C12 happens: a round of three or more whose delta exceeds the scaled
\* K-factor and stays within kFactor
C12_Witness ==
  /\ engineDone
  /\ Len(engineInput) >= 3
  /\ AllListedOnce
  /\ \E i \in 1..Len(engineInput) :
       /\ Abs(engineOutput[engineInput[i].playerId]) > MathRound(KFactor, Len(engineInput) - 1)
       /\ Abs(engineOutput[engineInput[i].playerId]) <= KFactor

\* C13: of two participants with equal current rating the one with the
\* strictly lower guess count gets a delta at least as large as the other's
C13_LowerGuessNotWorse ==
  engineDone
    => \A i, j \in 1..Len(engineInput) :
         (/\ engineInput[i].currentElo = engineInput[j].currentElo
          /\ engineInput[i].guessCount < engineInput[j].guessCount)
           => engineOutput[engineInput[i].playerId] >= engineOutput[engineInput[j].playerId]

\* the round with the ratings and guess counts of entries i and j exchanged
Swapped(round, i, j) ==
  [round EXCEPT ![i].currentElo = round[j].currentElo,
                ![i].guessCount = round[j].guessCount,
                ![j].currentElo = round[i].currentElo,
                ![j].guessCount = round[i].guessCount]

\* C14: exchanging two participants' ratings and guess counts exchanges
\* their deltas (the exchanged round being one the pipeline can build: a
\* player named twice has one rating)
C14_SwapSwapsDeltas ==
  engineDone
    => \A i, j \in 1..Len(engineInput) :
         (i # j /\ Swapped(engineInput, i, j) \in Rounds)
           => LET out == calculatePairwiseElo(Swapped(engineInput, i, j), KFactor)
              IN  /\ out[engineInput[i].playerId] = engineOutput[engineInput[j].playerId]
                  /\ out[engineInput[j].playerId] = engineOutput[engineInput[i].playerId]

\* C15: with 0 or 1 participants every listed participant's delta is 0
C15_FewerThanTwoIsZero ==
  (engineDone /\ Len(engineInput) < 2)
    => /\ DOMAIN engineOutput = EngineIds
       /\ \A i \in 1..Len(engineInput) : engineOutput[engineInput[i].playerId] = 0

\* C15 happens: the engine has rated a round of one participant
C15_Witness == engineDone /\ Len(engineInput) = 1

\* README example: 4 players, all rated 1000, guess counts 2, 3, 4, 5
ScenarioA ==
  /\ Len(engineInput) = 4
  /\ AllListedOnce
  /\ \A i \in 1..4 : engineInput[i].currentElo = 1000
  /\ {engineInput[i].guessCount : i \in 1..4} = {2, 3, 4, 5}

ScenarioADelta == (2 :> 16) @@ (3 :> 5) @@ (4 :> -5) @@ (5 :> -16)

\* C16: 4 players rated 1000 with guess counts 2, 3, 4, 5 and kFactor 32
\* get +16, +5, -5, -16: the 2-guess player the largest gain, the 5-guess
\* player the largest loss, the middle two smaller and of opposite sign
C16_ScenarioA ==
  (engineDone /\ ScenarioA /\ KFactor = 32)
    => \A i \in 1..4 :
         engineOutput[engineInput[i].playerId] = ScenarioADelta[engineInput[i].guessCount]

\* C16 happens: the engine has rated the example round
C16_Witness == engineDone /\ ScenarioA

\* C17: in a round where all participants have the same rating and the
\* same guess count every delta is 0
C17_AllTiedIsZero ==
  (/\ engineDone
   /\ \A i, j \in 1..Len(engineInput) :
        /\ engineInput[i].currentElo = engineInput[j].currentElo
        /\ engineInput[i].guessCount = engineInput[j].guessCount)
    => \A i \in 1..Len(engineInput) : engineOutput[engineInput[i].playerId] = 0

\* C17 happens: two different players tied at 3/6 with equal ratings
C17_Witness ==
  /\ engineDone
  /\ Len(engineInput) = 2
  /\ AllListedOnce
  /\ engineInput[1].currentElo = engineInput[2].currentElo
  /\ engineInput[1].guessCount = 3 /\ engineInput[2].guessCount = 3

\* the delta of one player of a two-player round who scored `score`
DuelDelta(score, own, other) ==
  MathRound(KFactor * (score - calculateExpectedScore(own.currentElo, other.currentElo)), Unit)

\* C18: a participant parsed from an x/6 line scores 0 against one with a
\* numeric guess count 1-6, who scores 1; two x/6 participants score 0.5
\* each (seen in the deltas of a round of two players)
C18_FailedLosesToNumeric ==
  (engineDone /\ Len(engineInput) = 2 /\ AllListedOnce)
    => \A i, j \in 1..2 :
         (i # j /\ engineInput[i].guessCount = parseGuessCount("x"))
           => LET f == engineInput[i]
                  o == engineInput[j]
              IN  /\ o.guessCount \in 1..6
                       => /\ engineOutput[f.playerId] = DuelDelta(0, f, o)
                          /\ engineOutput[o.playerId] = DuelDelta(Unit, o, f)
                  /\ o.guessCount = parseGuessCount("x")
                       => /\ engineOutput[f.playerId] = DuelDelta(Unit \div 2, f, o)
                          /\ engineOutput[o.playerId] = DuelDelta(Unit \div 2, o, f)

\* C18 happens: an x/6 participant was rated against a 3/6 participant
C18_Witness ==
  /\ engineDone
  /\ Len(engineInput) = 2
  /\ AllListedOnce
  /\ engineInput[1].guessCount = parseGuessCount("x")
  /\ engineInput[2].guessCount = 3


(* ---- what a run writes for a rated participant ------------------------ *)

\* the players row of a member before the run (the row createPlayer
\* inserts when the member is new)
PreRow(discordId) ==
  IF KnownPlayer(players, discordId)
    THEN players[PlayerOf(players, discordId)]
    ELSE NewPlayerRow([discordId |-> discordId, username |-> Username(discordId)],
                      DefaultRating)

\* the rows of handler h that the run rates: those of members without a
\* game record for the target date before the run
RatedRows(h) ==
  SelectSeq(handlers[h].results,
            LAMBDA row : ~(/\ KnownPlayer(players, row.discordId)
                           /\ HasRecord(games, PlayerOf(players, row.discordId),
                                        handlers[h].gameDate)))

\* the round of handler h: the rated rows with the pre-run ratings
RatedRound(h) ==
  [k \in 1..Len(RatedRows(h)) |->
     [playerId |-> PlayerOf(players', RatedRows(h)[k].discordId),
      currentElo |-> PreRow(RatedRows(h)[k].discordId).elo,
      guessCount |-> RatedRows(h)[k].guessCount]]

\* handler h runs processDailyResults in this step and it returns results
Succeeds(h) == Processes(h) /\ handlers'[h].pc = "roles"

\* C19: a successful run for date D leaves, for every rated participant
\* with pre-run rating r, engine delta d and guess count g: rating r + d;
\* exactly one game record for D, new, with r, r + d, d and g; one new
\* history sample r + d for D; games played + 1; guess sum + g; solved
\* count + 1 exactly when g is 1-6
C19_RunWritesParticipant ==
  [][\A h \in HandlerIds :
       Succeeds(h)
         => LET D == handlers[h].gameDate
                round == RatedRound(h)
                deltas == calculatePairwiseElo(round, KFactor)
            IN  \A k \in 1..Len(round) :
                  LET id == round[k].playerId
                      r == round[k].currentElo
                      d == deltas[id]
                      g == round[k].guessCount
                      pre == PreRow(RatedRows(h)[k].discordId)
                      post == players'[id]
                      recs == {m \in 1..Len(games') :
                                 games'[m].playerId = id /\ games'[m].gameDate = D}
                      samples == {m \in 1..Len(eloHistory') :
                                    /\ eloHistory'[m].playerId = id
                                    /\ eloHistory'[m].gameDate = D}
                  IN  /\ post.elo = r + d
                      /\ Cardinality(recs) = 1
                      /\ \A m \in recs :
                           /\ m > Len(games)
                           /\ games'[m].eloBefore = r
                           /\ games'[m].eloAfter = r + d
                           /\ games'[m].eloChange = d
                           /\ games'[m].guessCount = g
                      /\ Cardinality(samples) = 1
                      /\ \A m \in samples :
                           m > Len(eloHistory) /\ eloHistory'[m].elo = r + d
                      /\ post.totalGames = pre.totalGames + 1
                      /\ post.totalGuesses = pre.totalGuesses + g
                      /\ post.totalWins = pre.totalWins + (IF g \in 1..6 THEN 1 ELSE 0)]_vars

\* C19 happens: a run has rated two participants, one of them from an x/6
\* line, and one who had played before
C19_Witness ==
  \E h \in HandlerIds :
    /\ handlers[h].pc = "roles"
    /\ Len(handlers[h].eloResults) = 2
    /\ \E k \in 1..2 : handlers[h].eloResults[k].guessCount = FailedGuess
    /\ \E k \in 1..2 : players[handlers[h].eloResults[k].playerId].totalGames = 2

\* C20: for every rated participant of a successful run the crown counter
\* goes up by exactly 1 when the participant is named on the result line
\* that carries the crown, and is unchanged otherwise
C20_CrownCounted ==
  [][\A h \in HandlerIds :
       Succeeds(h)
         => \A k \in 1..Len(RatedRows(h)) :
              LET discordId == RatedRows(h)[k].discordId
              IN  players'[PlayerOf(players', discordId)].totalCrowns
                    = PreRow(discordId).totalCrowns
                        + (IF discordId \in handlers[h].crownLine THEN 1 ELSE 0)]_vars


(* ---- activity ---------------------------------------------------------- *)

C22_ParticipantActive ==
  [][\A h \in HandlerIds :
       Succeeds(h)
         => \A k \in 1..Len(handlers'[h].eloResults) :
              LET id == handlers'[h].eloResults[k].playerId
              IN  /\ players'[id].consecutiveInactiveDays = 0
                  /\ players'[id].isActive]_vars

\* C22 happens: a member who stayed away on the three days before, and was
\* inactive for that, has been rated and is active
C22_Witness ==
  \E h \in HandlerIds :
    /\ handlers[h].pc = "roles"
    /\ handlers[h].gameDate = 1
    /\ \E k \in 1..Len(handlers[h].eloResults) :
         LET id == handlers[h].eloResults[k].playerId
         IN  /\ HasRecord(games, id, 0 - MaxSeedDays)
             /\ \A d \in (1 - MaxSeedDays)..(0 - 1) : HasSummary(d) /\ ~HasRecord(games, id, d)
             /\ players[id].isActive
             /\ players[id].consecutiveInactiveDays = 0

(* ---- standings --------------------------------------------------------- *)

\* C23: while a run updates the roles, the highest holders it selects are
\* all players sharing the maximum rating, and the lowest holders are all
\* players with at least one game sharing the minimum rating among the
\* players with at least one game
C23_HoldersAreAllTied ==
  \A h \in HandlerIds :
    handlers[h].pc = "roles"
      => LET all == 1..Len(players)
             played == {id \in all : players[id].totalGames > 0}
         IN  /\ getHighestEloPlayers(players)
                  = {id \in all : \A o \in all : players[o].elo <= players[id].elo}
             /\ getLowestEloPlayers(players)
                  = {id \in played : \A o \in played : players[id].elo <= players[o].elo}

(* ---- a run without new participants ----------------------------------- *)

\* handler h ends in this step because no row resolved, or because every
\* resolved member already has a game record for the date
EndsWithNoneNew(h) ==
  /\ Steps(h)
  /\ handlers'[h].pc \in {"notQualifying", "noNew"}

\* C30 as stated: a run in which no participant survives resolution and
\* duplicate filtering writes nothing to the store
C30_NoWriteWhenNoneNew ==
  [][\A h \in HandlerIds : EndsWithNoneNew(h) => UNCHANGED store]_vars

\* C30: a run in which no participant survives resolution and duplicate
\* filtering creates no player, writes no game record, history sample or
\* summary and changes no column of players other than the username, and
\* that one only of a member it lists, to the username the row carries
C30_OnlyUsernamesWhenNoneNew ==
  [][\A h \in HandlerIds :
       EndsWithNoneNew(h)
         => /\ UNCHANGED <<games, eloHistory, dailySummaries>>
            /\ Len(players') = Len(players)
            /\ \A id \in 1..Len(players) :
                 /\ [players'[id] EXCEPT !.username = players[id].username] = players[id]
                 /\ players'[id].username # players[id].username
                      => \E k \in 1..Len(handlers[h].results) :
                           /\ handlers[h].results[k].discordId = players[id].discordId
                           /\ handlers[h].results[k].username = players'[id].username]_vars

\* C30 happens: the announcement of day -1, whose run had rated member 1
\* under its old username and lost its summary, has come again, every
\* member it lists had a record, and the run has ended without new
\* participants (member 2 is known, so member 1 was not created under the
\* username it has now by a run that rated both)
C30_Witness ==
  /\ Len(handlers) = 1
  /\ handlers[1].pc = "noNew"
  /\ ~HasSummary(0 - 1)
  /\ Len(players) = 2
  /\ players[2].discordId = 1
  /\ players[2].username = Username(1)
  /\ RecordsOf(games, 2) = {Len(games)}

(* ---- the game date ------------------------------------------------------ *)

\* the calendar day before the day <<year, month, date>>
DayBefore(ymd) ==
  IF ymd[3] > 1 THEN <<ymd[1], ymd[2], ymd[3] - 1>>
  ELSE IF ymd[2] > 1 THEN <<ymd[1], ymd[2] - 1, DaysInMonth(ymd[1], ymd[2] - 1)>>
  ELSE <<ymd[1] - 1, 12, 31>>

\* C24: the game date of a parsed announcement is the calendar day before
\* the day of the message's timestamp, the day being read in UTC or on the
\* host's clock
C24_GameDateIsDayBefore ==
  (parserPc = "parsed" /\ ~parsed.null)
    => toISODate(parsed.gameDate)
         \in {DayBefore(toISODate(message.createdAt \div HoursPerDay)),
              DayBefore(toISODate(LocalTime(hostZone, message.createdAt) \div HoursPerDay))}

(* ---- the result extractor ----------------------------------------------- *)

\* the results of one line of a message text: those of its row when the
\* line is a result row with players and does not hold the streak text
LineResults(line) ==
  LET row == parseResultRow(Trim(line))
  IN  IF row.null \/ streakLineTest(line) THEN <<>>
      ELSE [k \in 1..Len(row.players) |->
              [discordId |-> row.players[k].discordId,
               username |-> row.players[k].username,
               guessCount |-> row.guessCount]]

RECURSIVE ContentResults(_, _)
ContentResults(content, l) ==
  IF l > Len(content) THEN <<>>
  ELSE LineResults(content[l]) \o ContentResults(content, l + 1)

\* C25: parseWordleMessage returns null unless the text holds the streak
\* text and a line that is a result row with at least one player; and no
\* other line ends the parse: when the text holds the streak text, the
\* results are those of its result rows with players, line after line,
\* whatever lines stand between them
C25_NullUnlessStreakAndRow ==
  parserPc = "parsed"
    => LET content == message.content
           streak == \E l \in 1..Len(content) : streakLineTest(content[l])
       IN  /\ ~parsed.null
                => /\ streak
                   /\ \E l \in 1..Len(content) : ~parseResultRow(Trim(content[l])).null
           /\ (streak /\ ContentResults(content, 1) # <<>>)
                => /\ ~parsed.null
                   /\ parsed.results = ContentResults(content, 1)

\* C25 happens: a text whose first line is a row without players and whose
\* second is plain text has been parsed, and the row of its third line is
\* the result
C25_Witness ==
  /\ parserPc = "parsed"
  /\ message.content = <<Text(<<"3/6: ", "hello">>), Text(<<StreakText>>),
                         Text(<<"x/6: ", "<@!2>">>)>>
  /\ ~parsed.null
  /\ parsed.results = <<[discordId |-> <<"2">>, username |-> NoName,
                         guessCount |-> FailedGuess]>>

(* ---- the players of a result row --------------------------------------- *)

\* the mention tokens of a text: from a "<@" or "<@!" over digits, one at
\* least, to the ">" that ends them; <<first, last, first digit>>
MentionTokens(text) ==
  {t \in (1..Len(text)) \X (1..Len(text)) \X (1..Len(text)) :
     /\ t[1] + 2 < t[2]
     /\ text[t[1]] = "<"
     /\ text[t[1] + 1] = "@"
     /\ t[3] = (IF text[t[1] + 2] = "!" THEN t[1] + 3 ELSE t[1] + 2)
     /\ t[3] < t[2]
     /\ \A k \in t[3]..(t[2] - 1) : text[k] \in DigitChars
     /\ text[t[2]] = ">"}

\* the @name tokens of a text: an "@" and all the word characters that
\* follow it, one at least; <<first, last>>
NameTokens(text) ==
  {t \in (1..Len(text)) \X (1..Len(text)) :
     /\ text[t[1]] = "@"
     /\ t[1] < t[2]
     /\ \A k \in (t[1] + 1)..t[2] : text[k] \in WordChars
     /\ t[2] = Len(text) \/ text[t[2] + 1] \notin WordChars}

\* two stretches of text have a character in common
Overlap(t, u) == t[1] <= u[2] /\ u[1] <= t[2]

\* the tokens of a set in the order of the text
RECURSIVE InTextOrder(_)
InTextOrder(tokens) ==
  IF tokens = {} THEN <<>>
  ELSE LET first == CHOOSE t \in tokens : \A u \in tokens : t[1] <= u[1]
       IN  <<first>> \o InTextOrder(tokens \ {first})

\* the text after the colon of the result row of the message
RowSection == rowMatch(Trim(message.content[2])).playersSection

\* C26: the results of a result row are one row for each mention token,
\* carrying its id, followed by one row for each @name token that
\* overlaps no mention token, carrying its name; there is no row for an
\* @name that overlaps a mention, and no results at all when this leaves
\* no row
C26_OneRowPerToken ==
  (parserPc = "parsed" /\ Len(message.content) = 2 /\ rowMatch(Trim(message.content[2])).matched)
    => LET mentions == InTextOrder(MentionTokens(RowSection))
           names == InTextOrder({t \in NameTokens(RowSection) :
                                   \A m \in MentionTokens(RowSection) : ~Overlap(t, m)})
           ids == [k \in 1..Len(mentions) |->
                     SubSeq(RowSection, mentions[k][3], mentions[k][2] - 1)]
           bare == [k \in 1..Len(names) |->
                      SubSeq(RowSection, names[k][1] + 1, names[k][2])]
       IN  IF Len(mentions) + Len(names) = 0 THEN parsed.null
           ELSE /\ ~parsed.null
                /\ Len(parsed.results) = Len(ids) + Len(bare)
                /\ \A k \in 1..Len(ids) :
                     /\ parsed.results[k].discordId = ids[k]
                     /\ parsed.results[k].username = NoName
                /\ \A k \in 1..Len(bare) :
                     /\ parsed.results[Len(ids) + k].discordId = NoId
                     /\ parsed.results[Len(ids) + k].username = bare[k]

\* C26 happens: a row with a plain username, a mention and the mention of
\* something that is no id has been parsed into the mention's row and the
\* rows of the two names
C26_Witness ==
  /\ parserPc = "parsed"
  /\ message.content[2] = Text(<<"3/6: ", "@Al", "<@12>", "<@a>">>)
  /\ ~parsed.null
  /\ parsed.results =
       <<[discordId |-> <<"1", "2">>, username |-> NoName, guessCount |-> 3],
         [discordId |-> NoId, username |-> <<"A", "l">>, guessCount |-> 3],
         [discordId |-> NoId, username |-> <<"a">>, guessCount |-> 3]>>

(* ---- the identity resolver ---------------------------------------------- *)

\* the guild answers: there is one and the fetch of its members succeeds
GuildAnswers == guild.present /\ ~guild.fetchAllFails

\* member k of the guild goes by name in one of its three names
GoesBy(k, name) ==
  LET m == guild.members[k]
  IN  \/ toLowerCase(m.username) = toLowerCase(name)
      \/ toLowerCase(m.displayName) = toLowerCase(name)
      \/ (m.nickname # NoName /\ toLowerCase(m.nickname) = toLowerCase(name))

\* a parsed row resolves: its id is fetched, or a member goes by its name
RowResolves(row) ==
  IF row.discordId # NoId
    THEN /\ row.discordId \notin guild.failing
         /\ \E k \in 1..Len(guild.members) : guild.members[k].id = row.discordId
    ELSE \E k \in 1..Len(guild.members) : GoesBy(k, row.username)

\* the announcement is the streak line and the row  crown 2/6: @alice <@111>
AliceRow ==
  message.content = <<Text(<<StreakText>>),
                      Text(<<Crown, " ", "2/6: ", "@alice", " ", "<@111>">>)>>

\* C27 as stated: the row  crown 2/6: @alice <@111>  resolves to exactly
\* one participant (when the guild answers and member 111 is fetched)
C27_AliceRowIsOneParticipant ==
  (/\ parserPc = "resolved"
   /\ AliceRow
   /\ GuildAnswers
   /\ RowResolves([discordId |-> Text(<<"111">>), username |-> NoName]))
    => Cardinality({resolvedResults[k].discordId : k \in 1..Len(resolvedResults)}) = 1

\* C27: the row  crown 2/6: @alice <@111>  is parsed into two rows, the
\* mention 111 and then the name alice, and each of them becomes a
\* participant of its own when it resolves: member 111 when it is fetched,
\* and a member that goes by alice when there is one
C27_AliceRowIsTwoRows ==
  (parserPc \in {"parsed", "resolved"} /\ AliceRow)
    => LET mention == [discordId |-> Text(<<"111">>), username |-> NoName, guessCount |-> 2]
           name == [discordId |-> NoId, username |-> Text(<<"alice">>), guessCount |-> 2]
           n == IF RowResolves(mention) THEN 1 ELSE 0
       IN  /\ ~parsed.null
           /\ parsed.results = <<mention, name>>
           /\ (parserPc = "resolved" /\ GuildAnswers)
                => /\ Len(resolvedResults) = n + (IF RowResolves(name) THEN 1 ELSE 0)
                   /\ RowResolves(mention)
                        => /\ resolvedResults[1].discordId = Text(<<"111">>)
                           /\ resolvedResults[1].guessCount = 2
                   /\ RowResolves(name)
                        => /\ resolvedResults[n + 1].guessCount = 2
                           /\ \E k \in 1..Len(guild.members) :
                                /\ GoesBy(k, Text(<<"alice">>))
                                /\ resolvedResults[n + 1].discordId = guild.members[k].id
                                /\ resolvedResults[n + 1].username = guild.members[k].username

\* C27 happens: the row has been resolved to member 111 and to another
\* member, whose username is alice
C27_Witness ==
  /\ parserPc = "resolved"
  /\ AliceRow
  /\ Len(resolvedResults) = 2
  /\ resolvedResults[1].discordId = Text(<<"111">>)
  /\ resolvedResults[2].discordId = Text(<<"2">>)
  /\ resolvedResults[2].username = Text(<<"alice">>)

\* the positions of the parsed rows that resolve, in order
RECURSIVE Ascending(_)
Ascending(S) ==
  IF S = {} THEN <<>> ELSE <<Min(S)>> \o Ascending(S \ {Min(S)})

\* C28: when the guild answers, the output is one row for every parsed row
\* that resolves, in input order and with the row's guess count, and a
\* mention's row keeps its id; the rows that do not resolve are left out,
\* and leave the others in
C28_FailedRowsOmitted ==
  (parserPc = "resolved" /\ GuildAnswers)
    => LET kept == Ascending({k \in 1..Len(parsed.results) : RowResolves(parsed.results[k])})
       IN  /\ Len(resolvedResults) = Len(kept)
           /\ \A i \in 1..Len(kept) :
                LET row == parsed.results[kept[i]]
                IN  /\ resolvedResults[i].guessCount = row.guessCount
                    /\ row.discordId # NoId => resolvedResults[i].discordId = row.discordId
                    /\ row.discordId = NoId
                         => \E k \in 1..Len(guild.members) :
                              /\ GoesBy(k, row.username)
                              /\ resolvedResults[i].discordId = guild.members[k].id

\* C28 happens: of three parsed rows the second did not resolve, and the
\* first and the third are the output
C28_Witness ==
  /\ parserPc = "resolved"
  /\ GuildAnswers
  /\ Len(parsed.results) = 3
  /\ RowResolves(parsed.results[1])
  /\ ~RowResolves(parsed.results[2])
  /\ RowResolves(parsed.results[3])
  /\ Len(resolvedResults) = 2
  /\ resolvedResults[1].guessCount # resolvedResults[2].guessCount

\* the member a name resolves to when the usernames are tried first, then
\* the display names, then the nicknames: its position, 0 when none
ByPriority(name) ==
  LET ks == 1..Len(guild.members)
      byUsername == {k \in ks : toLowerCase(guild.members[k].username) = toLowerCase(name)}
      byDisplayName == {k \in ks : toLowerCase(guild.members[k].displayName) = toLowerCase(name)}
      byNickname == {k \in ks : /\ guild.members[k].nickname # NoName
                                /\ toLowerCase(guild.members[k].nickname) = toLowerCase(name)}
  IN  IF byUsername # {} THEN Min(byUsername)
      ELSE IF byDisplayName # {} THEN Min(byDisplayName)
      ELSE IF byNickname # {} THEN Min(byNickname)
      ELSE 0

\* C29: when the guild answers, a row with a bare name is resolved to the
\* member found by username first, else by display name, else by
\* nickname, whatever the case of the letters, and dropped when no member
\* is found (the rows with an id are taken as C28 has them)
C29_NameResolvedByPriority ==
  (parserPc = "resolved" /\ GuildAnswers)
    => LET kept == Ascending({k \in 1..Len(parsed.results) : RowResolves(parsed.results[k])})
       IN  /\ Len(resolvedResults) = Len(kept)
           /\ \A i \in 1..Len(kept) :
                LET row == parsed.results[kept[i]]
                IN  row.discordId = NoId
                      => /\ ByPriority(row.username) # 0
                         /\ resolvedResults[i].discordId
                              = guild.members[ByPriority(row.username)].id

(* ---- the players table ------------------------------------------------- *)

\* the rows a step adds to players
CreatedRows == (Len(players) + 1)..Len(players')

\* C31: at most one player per Discord user id in every state: a step adds
\* a row only for an id that has none, rows are never removed, and a row
\* that a run created and did not go on to write (its first write threw)
\* holds the default rating, zero counters, no last game, and is active;
\* the first game record of a created player starts from the default rating
C31_OnePlayerPerUser ==
  /\ [](\A i, j \in 1..Len(players) :
          players[i].discordId = players[j].discordId => i = j)
  /\ [][/\ Len(players') >= Len(players)
        /\ \A id \in 1..Len(players) : players'[id].discordId = players[id].discordId
        /\ \A id \in CreatedRows :
             /\ ~KnownPlayer(players, players'[id].discordId)
             /\ \A k \in RecordsOf(games', id) :
                  k = Min(RecordsOf(games', id)) => games'[k].eloBefore = DefaultRating
             /\ (\E h \in HandlerIds :
                   Processes(h) /\ handlers'[h].pc = "failed" /\ handlers'[h].writes = 0)
                  => /\ players'[id].elo = DefaultRating
                     /\ players'[id].totalGames = 0
                     /\ players'[id].totalWins = 0
                     /\ players'[id].totalCrowns = 0
                     /\ players'[id].totalGuesses = 0
                     /\ players'[id].lastPlayed = 0
                     /\ players'[id].consecutiveInactiveDays = 0
                     /\ players'[id].isActive]_vars

\* C31 happens: a member rated by an earlier run was seen again by a run
\* that threw at its first write, after it had created a row for another
\* member: one row each, the created one as inserted
C31_Witness ==
  /\ Len(players) = 2
  /\ RecordsOf(games, 1) # {}
  /\ players[2].totalGames = 0
  /\ \E h \in HandlerIds :
       handlers[h].pc = "failed" /\ handlers[h].err = "fault" /\ handlers[h].writes = 0

(* ---- the configuration ------------------------------------------------- *)

\* C32: getConfig never returns a configuration with kFactor <= 0,
\* defaultRating < 0 or inactivityThreshold < 1, on any call
C32_NoInvalidConfigReturned ==
  (configReturn.called /\ ~configReturn.threw)
    => /\ configReturn.config.kFactor > 0
       /\ configReturn.config.defaultRating >= 0
       /\ configReturn.config.inactivityThreshold >= 1

(* ---- messages of other authors ----------------------------------------- *)

\* C33: a message whose author is not the Wordle bot, this bot included, is
\* dropped on delivery: the step that delivers it writes nothing to players,
\* games, rating history or daily summaries, its handler has returned, and
\* the handler takes no step afterwards (so it writes nothing and sends no
\* reply)
C33_OtherAuthorsWriteNothing ==
  [][\A h \in 1..Len(handlers') :
       handlers'[h].author # "wordle"
         => /\ handlers'[h].pc = "ignored"
            /\ h > Len(handlers) => store' = store
            /\ h <= Len(handlers) => handlers'[h] = handlers[h]]_vars

\* C33 happens: a message of another author was delivered after a run had
\* filled the store, and is ignored
C33_Witness ==
  /\ games # <<>>
  /\ dailySummaries # {}
  /\ \E h \in HandlerIds : h > 1 /\ handlers[h].author # "wordle" /\ handlers[h].pc = "ignored"

(* ---- counters and records ---------------------------------------------- *)

\* C34: in every state each player's games-played counter equals the
\* number of game records stored for the player
C34_GamesPlayedIsRecordCount ==
  \A id \in 1..Len(players) :
    players[id].totalGames = Cardinality(RecordsOf(games, id))

(* ---- the inactive flag -------------------------------------------------- *)

SentDate == ParseGameDate(sent.createdAt, hostZone)

\* a run for SentDate has written the records of everybody the announcement
\* names and has ended in an error, and the date has no daily summary
StoppedBeforeSummary ==
  /\ ~HasSummary(SentDate)
  /\ \E h \in HandlerIds : handlers[h].pc = "failed"
  /\ \A i \in 1..Len(sent.rows) :
       /\ KnownPlayer(players, sent.rows[i].discordId)
       /\ HasRecord(games, PlayerOf(players, sent.rows[i].discordId), SentDate)

\* a handler of the announcement stands at the duplicate check with every
\* row resolved
RedeliveredInFull ==
  \E h \in HandlerIds :
    handlers[h].pc = "resolved" /\ Len(handlers[h].results) = Len(sent.rows)

\* C36: when a run for date D has written its per-player records and has
\* stopped before the daily summary write, delivering the same announcement
\* again (every row resolving, again and again) leads to a daily summary
\* for D
C36_RedeliveryWritesSummary ==
  ([]<>RedeliveredInFull) => (StoppedBeforeSummary ~> HasSummary(SentDate))

(* ---- one increment per date -------------------------------------------- *)

\* C37: for every date D and every player without a game record for D, the
\* runs for D increment the player's consecutive-inactive-day counter at
\* most once, whatever the runs and the interleaving of their handlers
C37_OneIncrementPerDate ==
  \A d \in Dates : \A id \in DOMAIN incremented[d] :
    ~HasRecord(games, id, d) => incremented[d][id] <= 1

(* ---- the participant count of a summary -------------------------------- *)

\* C38: in every state, the participant count of the daily summary of a
\* date is the number of game records stored for the date
C38_SummaryCountsRecords ==
  \A s \in dailySummaries :
    s.participantsCount = Cardinality({k \in 1..Len(games) : games[k].gameDate = s.gameDate})

(* ---- the round is zero-sum up to rounding ------------------------------ *)

\* the sum of the changes the engine returned
DeltaSum == SumOver(engineOutput, DOMAIN engineOutput)

====
